---- MODULE Spec2Model ----
(***************************************************************************)
(* Model of the TOSCA parser's template builder:                           *)
(*   - toscaparser/common/exception.py   ExceptionCollector, exceptions    *)
(*   - toscaparser/topology_template.py  TopologyTemplate                  *)
(*   - toscaparser/policy.py             Policy                            *)
(*   - toscaparser/elements/property_definition.py  PropertyDef            *)
(* together with the check of a requirement's `occurrences` and the        *)
(* validation runs that share the collector.                               *)
(* The collector is process-wide state; a TopologyTemplate is built by one *)
(* synchronous constructor call whose stages are modelled as successive    *)
(* steps (pc is the constructor's position).                               *)
(***************************************************************************)
EXTENDS Integers, Sequences, FiniteSets, TLC

VARIABLES
    exceptions,   \* ExceptionCollector.exceptions: sequence of [kind, msg]
    collecting,   \* ExceptionCollector.collecting
    raised,       \* exception the last call raised to its caller, or NoExc
    lastOp,       \* the last operation or constructor stage executed: [op, arg]
    pc,           \* position of TopologyTemplate.__init__
    doc,          \* the template document handed to the constructor (self.tpl)
    stagesRun,    \* constructor stages entered so far, in order
    produced,     \* exceptions handed to appendException by the constructor
    tt,           \* fields of the TopologyTemplate object under construction
    entity_tpl,   \* raw mapping of the last Policy built by a direct call
    propdef,      \* the last PropertyDef built: its name and its schema
    occurrences,  \* the last `occurrences` value a requirement carried
    runs          \* the validation runs that use the collector

vars == <<exceptions, collecting, raised, lastOp, pc, doc, stagesRun,
          produced, tt, entity_tpl, propdef, occurrences, runs>>

(***************************************************************************)
(* Bounds of the explored inputs.                                          *)
(***************************************************************************)
MaxRefs == 2        \* most names in a document's members and targets lists
MaxPrior == 1       \* most exceptions stored before a template is built
MaxRecorded == 2    \* most exceptions one validation run hands over

Names == {"a", "b"}            \* names used in members and targets lists
NodeNameSeqs ==                \* node_templates keys, in document order
    {<<>>, <<"a">>, <<"b">>, <<"a", "b">>}
GroupOrder == <<"a", "b">>     \* groups keys, in document order
PolicyOrder == <<"p">>         \* policy names, in document order
ExtraKeys == {"node_template"} \* a top-level key outside SECTIONS
PolicyExtraKeys == {"testkey"} \* a policy key outside the policy's SECTIONS
DirectPolicyExtra ==           \* other keys of a policy built directly
    {<<>>, <<"testkey">>, <<"description", "testkey", "metadata", "otherkey">>}

\* Python's None where a list is expected (dict.get on an absent key).
None == <<"%None%">>

\* A value of the document that is a plain string, and a node template's
\* values that function resolution visits: a property, an interface input,
\* a property of a relationship embedded in a requirement, a capability
\* property and an interface input of a relationship template.
PlainValue == [class |-> "str", fn |-> ""]
PlainValues == [properties |-> PlainValue, inputs |-> PlainValue,
                rel_properties |-> PlainValue, cap_properties |-> PlainValue,
                rel_inputs |-> PlainValue]

\* None where the node_templates mapping is expected.
NoneTpls == <<[name |-> "%None%", type |-> "%None%", values |-> PlainValues]>>

\* No exception is propagating.
NoExc == [kind |-> "", msg |-> ""]

\* The validation runs (clients of the process-wide collector) and a run
\* that has not begun: its position, the exceptions it has handed over
\* while collecting, the report it read, and whether no other run has
\* acted since it began.
Runs == {1, 2}
NewRun == [pc |-> "new", recorded |-> <<>>, report |-> <<>>, alone |-> TRUE]

Range(s) == {s[i] : i \in DOMAIN s}
SeqsUpTo(S, n) == UNION {[1..k -> S] : k \in 0..n}

(***************************************************************************)
(* Exceptions and their string representation (TOSCAException.__str__      *)
(* returns msg_fmt % kwargs).                                              *)
(***************************************************************************)
\* repr() of a Python list of strings: ['a', 'b']
RECURSIVE JoinRepr(_)
JoinRepr(s) ==
    IF s = <<>> THEN ""
    ELSE IF Len(s) = 1 THEN "'" \o s[1] \o "'"
    ELSE "'" \o s[1] \o "', " \o JoinRepr(Tail(s))

\* Variant of the list's repr(): each name is printed once.
RECURSIVE Distinct(_)
Distinct(s) ==
    IF s = <<>> THEN <<>>
    ELSE <<Head(s)>> \o Distinct(SelectSeq(Tail(s), LAMBDA x : x # Head(s)))

ListReprDistinct(s) == "[" \o JoinRepr(Distinct(s)) \o "]"

ListRepr(s) == "[" \o JoinRepr(s) \o "]"

InvalidGroupTargetException(message) ==
    [kind |-> "InvalidGroupTargetException",
     msg  |-> "\"" \o message \o "\""]

UnknownFieldError(what, field) ==
    [kind |-> "UnknownFieldError",
     msg  |-> what \o " contains unknown field \"" \o field
              \o "\". Refer to the definition to verify valid values."]

MissingRequiredFieldError(what, required) ==
    [kind |-> "MissingRequiredFieldError",
     msg  |-> what \o " is missing required field \"" \o required \o "\"."]

InvalidTypeError(what) ==
    [kind |-> "InvalidTypeError",
     msg  |-> "Type \"" \o what \o "\" is not a valid type."]

ValidationError(message) ==
    [kind |-> "ValidationError", msg |-> message]

InvalidSchemaError(message) ==
    [kind |-> "InvalidSchemaError", msg |-> message]

InvalidPropertyValueError(what) ==
    [kind |-> "InvalidPropertyValueError",
     msg  |-> "Value of property \"" \o what \o "\" is invalid."]

\* Python's built-in ValueError: its str() is the message.
ValueError(message) == [kind |-> "ValueError", msg |-> message]

\* Exceptions a caller hands to appendException directly.
ExcInputs == {ValidationError("m1"), InvalidSchemaError("m1"),
              ValidationError("m2")}

(***************************************************************************)
(* ExceptionCollector                                                      *)
(***************************************************************************)
\* Variant of contains: compares the kind as well as the message.
containsKindAndMessage(excs, e) == \E i \in DOMAIN excs : excs[i] = e

\* contains(exception): some stored exception has the same str().
contains(excs, e) == \E i \in DOMAIN excs : excs[i].msg = e.msg

\* Variant of appendException: stores the exception whatever the flag, and
\* raises it when not collecting.
appendExceptionAlwaysStores(c, e) ==
    IF c.raised # NoExc THEN c
    ELSE [c EXCEPT !.exceptions = IF ~contains(@, e) THEN Append(@, e) ELSE @,
                   !.raised = IF c.collecting THEN NoExc ELSE e,
                   !.produced = Append(@, e)]

\* Variant of appendException: while collecting, an exception whose message
\* is already stored is raised instead of being dropped.
appendExceptionRaisesDuplicates(c, e) ==
    IF c.raised # NoExc THEN c
    ELSE IF c.collecting /\ ~contains(c.exceptions, e)
         THEN [c EXCEPT !.exceptions = Append(@, e),
                        !.produced = Append(@, e)]
         ELSE [c EXCEPT !.raised = e, !.produced = Append(@, e)]

\* appendException as a function of the collector's state.  c carries the
\* collecting flag, the stored list, the exception propagating so far and
\* the exceptions handed over so far; once an exception propagates nothing
\* further executes.
appendExceptionTo(c, e) ==
    IF c.raised # NoExc THEN c
    ELSE IF c.collecting
         THEN IF ~contains(c.exceptions, e)
              THEN [c EXCEPT !.exceptions = Append(@, e),
                             !.produced = Append(@, e)]
              ELSE [c EXCEPT !.produced = Append(@, e)]
         ELSE [c EXCEPT !.raised = e, !.produced = Append(@, e)]

Idle == pc = "idle"

clear ==
    /\ Idle
    /\ exceptions' = <<>>
    /\ raised' = NoExc
    /\ lastOp' = [op |-> "clear", arg |-> NoExc]
    /\ UNCHANGED <<collecting, pc, doc, stagesRun, produced, tt, entity_tpl,
                 propdef, occurrences, runs>>

start ==
    /\ Idle
    /\ exceptions' = <<>>
    /\ collecting' = TRUE
    /\ raised' = NoExc
    /\ lastOp' = [op |-> "start", arg |-> NoExc]
    /\ UNCHANGED <<pc, doc, stagesRun, produced, tt, entity_tpl, propdef,
                 occurrences, runs>>

\* Variant of stop: also empties the list.
stopAndClear ==
    /\ Idle
    /\ collecting' = FALSE
    /\ exceptions' = <<>>
    /\ raised' = NoExc
    /\ lastOp' = [op |-> "stop", arg |-> NoExc]
    /\ UNCHANGED <<pc, doc, stagesRun, produced, tt, entity_tpl, propdef,
                 occurrences, runs>>

stop ==
    /\ Idle
    /\ collecting' = FALSE
    /\ raised' = NoExc
    /\ lastOp' = [op |-> "stop", arg |-> NoExc]
    /\ UNCHANGED <<exceptions, pc, doc, stagesRun, produced, tt, entity_tpl,
                 propdef, occurrences, runs>>

appendException(e) ==
    /\ Idle
    /\ LET c == appendExceptionTo([collecting |-> collecting,
                                   exceptions |-> exceptions,
                                   raised |-> NoExc, produced |-> <<>>], e)
       IN /\ exceptions' = c.exceptions
          /\ raised' = c.raised
    /\ lastOp' = [op |-> "appendException", arg |-> e]
    /\ UNCHANGED <<collecting, pc, doc, stagesRun, produced, tt, entity_tpl,
                 propdef, occurrences, runs>>

(***************************************************************************)
(* PropertyDef (elements/property_definition.py).  A Python value of a     *)
(* schema is its type name and the characters of its str(); a key the      *)
(* schema does not have is Absent.                                         *)
(***************************************************************************)
PyStr(chars) == [t |-> "str", chars |-> chars]
PyTrue == [t |-> "bool", chars |-> <<"T", "r", "u", "e">>]
PyFalse == [t |-> "bool", chars |-> <<"F", "a", "l", "s", "e">>]
PyInt(digit) == [t |-> "int", chars |-> <<digit>>]
PyNone == [t |-> "NoneType", chars |-> <<"N", "o", "n", "e">>]
PyEmptyList == [t |-> "list", chars |-> <<"[", "]">>]
Absent == [t |-> "%absent%", chars |-> <<>>]

\* str(value)
RECURSIVE str(_)
str(chars) == IF chars = <<>> THEN "" ELSE Head(chars) \o str(Tail(chars))

\* str.lower(): every upper-case letter becomes its lower-case letter.
UpperCase == <<"A", "B", "C", "D", "E", "F", "G", "H", "I", "J", "K", "L",
               "M", "N", "O", "P", "Q", "R", "S", "T", "U", "V", "W", "X",
               "Y", "Z">>
LowerCase == <<"a", "b", "c", "d", "e", "f", "g", "h", "i", "j", "k", "l",
               "m", "n", "o", "p", "q", "r", "s", "t", "u", "v", "w", "x",
               "y", "z">>
lower(chars) ==
    [i \in DOMAIN chars |->
        IF \E k \in DOMAIN UpperCase : UpperCase[k] = chars[i]
        THEN LowerCase[CHOOSE k \in DOMAIN UpperCase :
                           UpperCase[k] = chars[i]]
        ELSE chars[i]]

VALID_REQUIRED_VALUES == {"true", "false"}

\* ', '.join(VALID_REQUIRED_VALUES)
valid_values == "true, false"

AttributeError(type, attribute) ==
    [kind |-> "AttributeError",
     msg  |-> "'" \o type \o "' object has no attribute '" \o attribute
              \o "'"]

\* The schemas and names handed to PropertyDef.
PropertyNames == {"prop"}
RequiredValues ==
    {Absent, PyTrue, PyFalse, PyInt("1"), PyNone, PyEmptyList,
     PyStr(<<"t", "r", "u", "e">>), PyStr(<<"T", "r", "u", "e">>),
     PyStr(<<"f", "a", "l", "s", "e">>),
     PyStr(<<"F", "A", "L", "S", "E">>),
     PyStr(<<"y", "e", "s">>), PyStr(<<>>)}
DefaultValues ==
    {Absent, PyInt("0"), PyFalse, PyStr(<<>>), PyStr(<<"x">>)}
Schemas == [has_type : BOOLEAN, required : RequiredValues,
            default : DefaultValues]

\* got is what the last read of an accessor of the object returned.
NoPropertyDef ==
    [name |-> "", built |-> FALSE,
     schema |-> [has_type |-> TRUE, required |-> Absent,
                 default |-> Absent],
     got |-> Absent]

\* PropertyDef.__init__, the `type` check: schema['type'] raises KeyError
\* on a schema without the key.
check_type(c, name, schema) ==
    IF c.raised # NoExc \/ schema.has_type THEN c
    ELSE appendExceptionTo(c, InvalidSchemaError(
             "Schema definition of \"" \o name
             \o "\" must have a \"type\" attribute."))

\* PropertyDef.__init__, the `required` check: required.lower() is an
\* AttributeError on a value that is neither a bool nor a string.
check_required(c, name, schema) ==
    LET required == schema.required
    IN IF c.raised # NoExc \/ required = Absent \/ required.t = "bool"
       THEN c
       ELSE IF required.t # "str"
       THEN [c EXCEPT !.raised = AttributeError(required.t, "lower")]
       ELSE IF str(lower(required.chars)) \notin VALID_REQUIRED_VALUES
       THEN appendExceptionTo(c, InvalidSchemaError(
                "Schema definition of \"" \o name
                \o "\" has \"required\" attribute with invalid value \""
                \o str(required.chars) \o "\". The value must be one of \""
                \o valid_values \o "\"."))
       ELSE c

\* Variant of PropertyDef.__init__: a schema without `type` is not
\* checked any further.
PropertyDef__init__type_first(c, name, schema) ==
    IF schema.has_type THEN check_required(c, name, schema)
    ELSE check_type(c, name, schema)

PropertyDef__init__(c, name, schema) ==
    check_required(check_type(c, name, schema), name, schema)

\* PropertyDef(name, None, schema), called by a client of the class.
NewPropertyDef(name, schema) ==
    /\ Idle
    /\ LET c == PropertyDef__init__([collecting |-> collecting,
                                     exceptions |-> exceptions,
                                     raised |-> NoExc, produced |-> <<>>],
                                    name, schema)
       IN /\ exceptions' = c.exceptions
          /\ raised' = c.raised
          /\ produced' = c.produced
          /\ propdef' = [name |-> name, schema |-> schema,
                         built |-> c.raised = NoExc, got |-> Absent]
    /\ lastOp' = [op |-> "PropertyDef", arg |-> NoExc]
    /\ UNCHANGED <<collecting, pc, doc, stagesRun, tt, entity_tpl,
                 occurrences, runs>>

\* bool(value): the truth value Python gives a value.
truthy(value) ==
    CASE value.t = "bool" -> value = PyTrue
      [] value.t = "int" -> value.chars # <<"0">>
      [] value.t = "NoneType" -> FALSE
      [] value.t = "list" -> value # PyEmptyList
      [] value.t = "str" -> value.chars # <<>>
      [] OTHER -> FALSE

\* `if self.schema`: a mapping with no key is falsy.
schema_is_set(schema) ==
    schema.has_type \/ schema.required # Absent \/ schema.default # Absent

\* PropertyDef.required: True when the schema has a `required` key whose
\* value is truthy.
PropertyDef_required(schema) ==
    IF schema_is_set(schema) /\ schema.required # Absent
       /\ truthy(schema.required)
    THEN PyTrue ELSE PyFalse

\* Variant of PropertyDef.default: a falsy default is not returned.
PropertyDef_default_if_truthy(schema) ==
    IF schema_is_set(schema) /\ schema.default # Absent
       /\ truthy(schema.default)
    THEN schema.default ELSE PyNone

\* PropertyDef.default: the value of the `default` key, None without one.
PropertyDef_default(schema) ==
    IF schema_is_set(schema) /\ schema.default # Absent
    THEN schema.default ELSE PyNone

\* A read of propdef.required by a client holding the object.
GetRequired ==
    /\ Idle
    /\ propdef.built
    /\ propdef' = [propdef EXCEPT !.got = PropertyDef_required(propdef.schema)]
    /\ raised' = NoExc
    /\ lastOp' = [op |-> "required", arg |-> NoExc]
    /\ UNCHANGED <<exceptions, collecting, pc, doc, stagesRun, produced, tt,
                 entity_tpl,
                 occurrences, runs>>

\* A read of propdef.default by a client holding the object.
GetDefault ==
    /\ Idle
    /\ propdef.built
    /\ propdef' = [propdef EXCEPT !.got = PropertyDef_default(propdef.schema)]
    /\ raised' = NoExc
    /\ lastOp' = [op |-> "default", arg |-> NoExc]
    /\ UNCHANGED <<exceptions, collecting, pc, doc, stagesRun, produced, tt,
                 entity_tpl,
                 occurrences, runs>>

(***************************************************************************)
(* The `occurrences` field of a node template's requirement.  Its check    *)
(* belongs to NodeTemplate, as section 4.4 of the specification gives it;  *)
(* the expected errors are those of the tests of                           *)
(* tests/test_toscatplvalidation.py.  A value is a list of bounds or a     *)
(* bare bound; a bound is an integer or a string.                          *)
(***************************************************************************)
OInt(k) == [t |-> "int", n |-> k, s |-> ""]
OStr(x) == [t |-> "str", n |-> 0, s |-> x]
OList(items) == [list |-> TRUE, items |-> items]
OBare(v) == [list |-> FALSE, items |-> <<v>>]

BoundValues ==
    {OInt(k) : k \in {-1, 0, 1, 2, 5}} \cup {OStr(x) : x \in {"a", "w"}}
OccurrencesValues ==
    {OBare(v) : v \in BoundValues}
    \cup {OList(items) : items \in SeqsUpTo(BoundValues, 2)}
    \cup {OList(<<OInt(1), OInt(2), OInt(5)>>)}

NoOccurrences == OList(<<>>)

\* str() of an integer.
Digits == <<"0", "1", "2", "3", "4", "5", "6", "7", "8", "9">>
RECURSIVE IntStr(_)
IntStr(k) ==
    IF k < 0 THEN "-" \o IntStr(-k)
    ELSE IF k < 10 THEN Digits[k + 1]
    ELSE IntStr(k \div 10) \o Digits[(k % 10) + 1]

\* str() of a bound, and of a list of integers.
BoundStr(v) == IF v.t = "int" THEN IntStr(v.n) ELSE v.s
RECURSIVE JoinBounds(_)
JoinBounds(items) ==
    IF items = <<>> THEN ""
    ELSE IF Len(items) = 1 THEN BoundStr(items[1])
    ELSE BoundStr(items[1]) \o ", " \o JoinBounds(Tail(items))
BoundsRepr(items) == "[" \o JoinBounds(items) \o "]"

\* One ValueError per bound that is not an integer.
RECURSIVE IntegerLoop(_, _)
IntegerLoop(c, items) ==
    IF items = <<>> \/ c.raised # NoExc THEN c
    ELSE IntegerLoop(
             IF Head(items).t # "int"
             THEN appendExceptionTo(c, ValueError(
                      "\"" \o BoundStr(Head(items))
                      \o "\" is not an integer."))
             ELSE c,
             Tail(items))

\* Variant of the policy of a pair: [0, 0] is let through.
within_policy_or_zero(items) ==
    /\ Len(items) = 2
    /\ 0 <= items[1].n
    /\ items[1].n <= items[2].n

\* The policy of a list of integers: two bounds, neither negative, the
\* first not above the second, and not both zero.
within_policy(items) ==
    /\ Len(items) = 2
    /\ 0 <= items[1].n
    /\ items[1].n <= items[2].n
    /\ items[2].n # 0

\* The check of one `occurrences` value: a bare value is not a list, a
\* bound that is not an integer is reported by itself, and a list of
\* integers outside the policy is reported as the literal list.
_validate_occurrences(c, occ) ==
    IF c.raised # NoExc THEN c
    ELSE IF ~occ.list
    THEN appendExceptionTo(c, ValueError(
             "\"" \o BoundStr(occ.items[1]) \o "\" is not a list."))
    ELSE IF \E i \in DOMAIN occ.items : occ.items[i].t # "int"
    THEN IntegerLoop(c, occ.items)
    ELSE IF ~within_policy(occ.items)
    THEN appendExceptionTo(c, InvalidPropertyValueError(
                                  BoundsRepr(occ.items)))
    ELSE c

\* A node template whose requirement carries the value is validated.
ValidateOccurrences(occ) ==
    /\ Idle
    /\ Len(exceptions) <= MaxPrior
    /\ LET c == _validate_occurrences([collecting |-> collecting,
                                       exceptions |-> exceptions,
                                       raised |-> NoExc,
                                       produced |-> <<>>], occ)
       IN /\ exceptions' = c.exceptions
          /\ raised' = c.raised
          /\ produced' = c.produced
    /\ occurrences' = occ
    /\ lastOp' = [op |-> "_validate_occurrences", arg |-> NoExc]
    /\ UNCHANGED <<collecting, pc, doc, stagesRun, tt, entity_tpl, propdef,
                 runs>>

(***************************************************************************)
(* Template documents.  A mapping is the sequence of its entries in        *)
(* document order; an absent section is NoneTpls (node_templates) or the   *)
(* empty sequence (inputs, outputs, groups, policies: the code reads them  *)
(* with `.get(..) or {}`).  custom_defs is the constructor's argument of   *)
(* that name: the names of the custom type definitions.                    *)
(***************************************************************************)
Prefixes(order) == {SubSeq(order, 1, k) : k \in 0..Len(order)}

\* Names of the built-in node types (type_definition.TOSCA_DEF).
TOSCA_DEF == {"tosca.nodes.Compute"}

\* node_templates: name -> template with its `type` field.
NodeTplSeqsOf(types) ==
    UNION {{[i \in 1..Len(ns) |->
                [name |-> ns[i], type |-> k[i], values |-> PlainValues]] :
               k \in [1..Len(ns) -> types]} :
           ns \in NodeNameSeqs}
NodeTplSeqs == NodeTplSeqsOf(TOSCA_DEF)

\* groups: name -> template with its `members` list and, or not, a `type`.
MemberChoices == {None} \cup SeqsUpTo(Names, MaxRefs)
GroupTplSeqsOf(members, has_type) ==
    UNION {{[i \in 1..Len(ns) |->
                [name |-> ns[i], members |-> m[i].members,
                 has_type |-> m[i].has_type]] :
               m \in [1..Len(ns) ->
                         [members : members, has_type : has_type]]} :
           ns \in Prefixes(GroupOrder)}
GroupTplSeqs == GroupTplSeqsOf(MemberChoices, {TRUE})

\* policies: a list of name -> template with its `targets` list, its other
\* keys (extra) and, or not, a `type`.
TargetChoices == {None} \cup SeqsUpTo(Names, MaxRefs)
PolicyExtraChoices == {<<>>} \cup {<<k>> : k \in PolicyExtraKeys}
PolicyTplSeqsOf(targets, extra, has_type) ==
    UNION {{[i \in 1..Len(ns) |->
                [name |-> ns[i], targets |-> t[i].targets,
                 extra |-> t[i].extra, has_type |-> t[i].has_type]] :
               t \in [1..Len(ns) ->
                         [targets : targets, extra : extra,
                          has_type : has_type]]} :
           ns \in Prefixes(PolicyOrder)}
PolicyTplSeqs == PolicyTplSeqsOf(TargetChoices, PolicyExtraChoices, {TRUE})

\* Number of names in the lists of a sequence of entries.
RECURSIVE Refs(_, _)
Refs(lists, i) ==
    IF i > Len(lists) THEN 0
    ELSE (IF lists[i] = None THEN 0 ELSE Len(lists[i])) + Refs(lists, i + 1)

DocRefs(d) ==
    Refs([i \in DOMAIN d.groups |-> d.groups[i].members], 1)
    + Refs([i \in DOMAIN d.policies |-> d.policies[i].targets], 1)

\* Documents whose groups and policies carry member and target lists.
Docs == {d \in [extra    : {<<>>} \cup {<<k>> : k \in ExtraKeys},
                 nodes    : {NoneTpls} \cup NodeTplSeqs,
                 groups   : GroupTplSeqs,
                 policies : PolicyTplSeqs,
                 outputs  : {<<>>},
                 custom_defs : {{}}] : DocRefs(d) <= MaxRefs}

\* Documents that vary the sections: top-level keys, node types, outputs.
SectionKeyChoices ==
    {<<>>, <<"node_template">>, <<"description", "inputs">>,
     <<"node_template", "relationship_templates", "substitution_mappings",
       "abc">>}
CustomType == "custom.Type"
NodeTypes == TOSCA_DEF \cup {CustomType, "unknown.Type"}
OutputOrder == <<"o1", "o2">>
OutputValues ==
    {[class |-> "str", fn |-> ""], [class |-> "dict", fn |-> "get_input"],
     [class |-> "dict", fn |-> "get_property"],
     [class |-> "dict", fn |-> "get_attribute"]}
OutputTplSeqs ==
    UNION {{[i \in 1..Len(ns) |-> [name |-> ns[i], value |-> v[i]]] :
               v \in [1..Len(ns) -> OutputValues]} :
           ns \in Prefixes(OutputOrder)}
DocsSections ==
    [extra    : SectionKeyChoices,
     nodes    : {NoneTpls} \cup NodeTplSeqsOf(NodeTypes),
     groups   : {<<>>},
     policies : {<<>>},
     outputs  : OutputTplSeqs,
     custom_defs : {{}, {CustomType}}]

\* Documents that vary the `type` field and the keys of groups and policies.
DocsTypes ==
    [extra    : {<<>>},
     nodes    : {NoneTpls} \cup NodeTplSeqsOf(TOSCA_DEF),
     groups   : GroupTplSeqsOf({None, <<"a">>}, BOOLEAN),
     policies : PolicyTplSeqsOf({None, <<"a">>}, DirectPolicyExtra, BOOLEAN),
     outputs  : {<<>>},
     custom_defs : {{}}]

\* Documents that vary which policy entries have targets.
PolicyNames == <<"p", "q">>
PolicyEntries == [targets : {None, <<>>, <<"a">>},
                  extra : PolicyExtraChoices, has_type : BOOLEAN]
DocsPolicies ==
    [extra    : {<<>>},
     nodes    : {NoneTpls} \cup NodeTplSeqsOf(TOSCA_DEF),
     groups   : {<<>>},
     policies : UNION {{[i \in 1..Len(ns) |->
                           [name |-> ns[i], targets |-> t[i].targets,
                            extra |-> t[i].extra,
                            has_type |-> t[i].has_type]] :
                          t \in [1..Len(ns) -> PolicyEntries]} :
                      ns \in Prefixes(PolicyNames)},
     outputs  : {<<>>},
     custom_defs : {{}}]

\* Documents that vary the values function resolution visits.
SlotValues ==
    {PlainValue, [class |-> "dict", fn |-> "get_input"],
     [class |-> "dict", fn |-> "get_attribute"]}
NodeValues == [properties : SlotValues, inputs : SlotValues,
               rel_properties : SlotValues, cap_properties : SlotValues,
               rel_inputs : SlotValues]
DocsFunctions ==
    [extra    : {<<>>},
     nodes    : {NoneTpls} \cup
                {<<[name |-> "a", type |-> "tosca.nodes.Compute",
                    values |-> v]>> : v \in NodeValues},
     groups   : {<<>>},
     policies : {<<>>},
     outputs  : {o \in OutputTplSeqs : Len(o) = 1},
     custom_defs : {{}}]

EmptyDoc == [extra |-> <<>>, nodes |-> NoneTpls, groups |-> <<>>,
             policies |-> <<>>, outputs |-> <<>>, custom_defs |-> {}]

\* Variant of the key names: substitution_mappings is misspelt.
SECTIONS_misspelt ==
    {"description", "inputs", "node_templates", "relationship_templates",
     "outputs", "groups", "substitution_mapping", "policies"}

\* Topology template key names.
SECTIONS == {"description", "inputs", "node_templates",
             "relationship_templates", "outputs", "groups",
             "substitution_mappings", "policies"}

\* Policy key names (policy.py).
POLICY_SECTIONS == {"type", "metadata", "description", "properties",
                    "targets"}

\* The keys of a policy's mapping (self.entity_tpl), in iteration order.
PolicyKeys(p) ==
    (IF p.has_type THEN <<"type">> ELSE <<>>)
    \o p.extra
    \o (IF p.targets # None THEN <<"targets">> ELSE <<>>)

\* The keys of self.tpl, in iteration order.
TplKeys(d) ==
    d.extra
    \o (IF d.nodes # NoneTpls THEN <<"node_templates">> ELSE <<>>)
    \o (IF d.outputs # <<>> THEN <<"outputs">> ELSE <<>>)
    \o (IF d.groups # <<>> THEN <<"groups">> ELSE <<>>)
    \o (IF d.policies # <<>> THEN <<"policies">> ELSE <<>>)

_tpl_nodetemplates(d) == d.nodes
_tpl_outputs(d) == d.outputs
_tpl_groups(d) == d.groups
_tpl_policies(d) == d.policies

(***************************************************************************)
(* TopologyTemplate: the methods as functions of the collector state c and *)
(* of the object's fields built so far.                                    *)
(***************************************************************************)
NodeTemplate(name) == [class |-> "NodeTemplate", name |-> name]
Group(name, member_nodes) ==
    [class |-> "Group", name |-> name, member_nodes |-> member_nodes]
Policy(name, targets, targets_type) ==
    [class |-> "Policy", name |-> name, targets_list |-> targets,
     targets_type |-> targets_type]

\* EntityTemplate.__init__, the base constructor of Group and Policy (its
\* `type` check as section 4.3 of the specification gives it): a raw
\* mapping without a `type` field is a MissingRequiredFieldError.
EntityTemplate__init__(c, name, has_type) ==
    IF c.raised # NoExc \/ has_type THEN c
    ELSE appendExceptionTo(
             c, MissingRequiredFieldError("Template \"" \o name \o "\"",
                                          "type"))

\* Policy._validate_keys: one UnknownFieldError per key outside SECTIONS.
RECURSIVE ValidateKeysLoop(_, _, _)
ValidateKeysLoop(c, name, keys) ==
    IF keys = <<>> \/ c.raised # NoExc THEN c
    ELSE ValidateKeysLoop(
             IF Head(keys) \notin POLICY_SECTIONS
             THEN appendExceptionTo(
                      c, UnknownFieldError("Policy \"" \o name \o "\"",
                                           Head(keys)))
             ELSE c,
             name, Tail(keys))

\* Variant of _validate_keys: the loop ends at the first unknown key.
_validate_keys_first_only(c, p) ==
    LET keys == PolicyKeys(p)
        first == IF \E i \in DOMAIN keys : keys[i] \notin POLICY_SECTIONS
                 THEN CHOOSE i \in DOMAIN keys :
                          /\ keys[i] \notin POLICY_SECTIONS
                          /\ \A j \in 1..(i - 1) : keys[j] \in POLICY_SECTIONS
                 ELSE Len(keys)
    IN ValidateKeysLoop(c, p.name, SubSeq(keys, 1, first))

_validate_keys(c, p) == ValidateKeysLoop(c, p.name, PolicyKeys(p))

\* Variant of Policy.__init__: the base constructor is not called.
Policy__init__without_super(c, p) == _validate_keys(c, p)

\* Policy.__init__: the base constructor, then the keys.
Policy__init__(c, p) ==
    _validate_keys(EntityTemplate__init__(c, p.name, p.has_type), p)

\* Group.__init__: the base constructor.
Group__init__(c, g) == EntityTemplate__init__(c, g.name, g.has_type)

\* The collector as a constructor stage finds it.
NewCollectorRun == [collecting |-> collecting, exceptions |-> exceptions,
                    raised |-> NoExc, produced |-> produced]

\* _validate_field: one UnknownFieldError per key outside SECTIONS.
RECURSIVE ValidateFieldLoop(_, _)
ValidateFieldLoop(c, keys) ==
    IF keys = <<>> \/ c.raised # NoExc THEN c
    ELSE ValidateFieldLoop(
             IF Head(keys) \notin SECTIONS
             THEN appendExceptionTo(c, UnknownFieldError("Template",
                                                         Head(keys)))
             ELSE c,
             Tail(keys))

_validate_field(c, d) == ValidateFieldLoop(c, TplKeys(d))

\* tpl.type_definition: the definition the template's type resolves to in
\* the registry of built-in and custom types (sections 4.2 and 4.3 of the
\* specification); TRUE when there is one.
type_definition(tpl, custom_defs) == tpl.type \in TOSCA_DEF \cup custom_defs

\* NodeTemplate(name, tpls, custom_defs, ...): a type found in neither set
\* is an InvalidTypeError (section 4.3).
NodeTemplate__init__(c, tpl, custom_defs) ==
    IF c.raised # NoExc \/ type_definition(tpl, custom_defs) THEN c
    ELSE appendExceptionTo(c, InvalidTypeError(tpl.type))

\* Variant of the test of _nodetemplates: only built-in types are kept.
retained_builtin_only(tpl, custom_defs) ==
    type_definition(tpl, custom_defs) /\ tpl.type \in TOSCA_DEF

\* The test of _nodetemplates on a template it has built.
retained(tpl, custom_defs) ==
    /\ type_definition(tpl, custom_defs)
    /\ \/ tpl.type \in TOSCA_DEF
       \/ (tpl.type \notin TOSCA_DEF /\ custom_defs # {})

\* _nodetemplates: builds every template and keeps those that pass the
\* test, in document order.
RECURSIVE NodeTemplatesLoop(_, _, _)
NodeTemplatesLoop(acc, tpls, custom_defs) ==
    IF tpls = <<>> \/ acc.c.raised # NoExc THEN acc
    ELSE
      LET tpl == Head(tpls)
          c1 == NodeTemplate__init__(acc.c, tpl, custom_defs)
      IN NodeTemplatesLoop(
             IF c1.raised # NoExc THEN [acc EXCEPT !.c = c1]
             ELSE [c |-> c1,
                   nodetemplates |->
                       IF retained(tpl, custom_defs)
                       THEN Append(acc.nodetemplates, NodeTemplate(tpl.name))
                       ELSE acc.nodetemplates,
                   values |->
                       IF retained(tpl, custom_defs)
                       THEN Append(acc.values, tpl.values)
                       ELSE acc.values],
             Tail(tpls), custom_defs)

_nodetemplates(c, d) ==
    LET tpls == _tpl_nodetemplates(d)
    IN IF tpls = NoneTpls \/ tpls = <<>>
       THEN [c |-> c, nodetemplates |-> <<>>, values |-> <<>>]
       ELSE NodeTemplatesLoop([c |-> c, nodetemplates |-> <<>>,
                               values |-> <<>>], tpls, d.custom_defs)

\* _outputs: one Output per entry of the outputs mapping, with its value.
Output(name, value) == [class |-> "Output", name |-> name, value |-> value]

_outputs(d) ==
    LET tpls == _tpl_outputs(d)
    IN [i \in 1..Len(tpls) |-> Output(tpls[i].name, tpls[i].value)]

\* The function-call shapes and the class of the function object of each
\* (the function-expression grammar, section 4.9 of the specification).
FunctionClass(fn) ==
    CASE fn = "get_input" -> "GetInput"
      [] fn = "get_property" -> "GetProperty"
      [] fn = "get_attribute" -> "GetAttribute"
      [] OTHER -> "dict"

\* functions.get_function: the function object for a value that is a
\* function-call shape, the value itself otherwise (section 4.9).
get_function(value) ==
    IF value.class = "dict" /\ FunctionClass(value.fn) # "dict"
    THEN [class |-> FunctionClass(value.fn), fn |-> value.fn]
    ELSE value

\* _process_intrinsic_functions, the loop over self.outputs: the value is
\* replaced when the function object is a GetAttribute.
_process_intrinsic_functions(outputs) ==
    [i \in DOMAIN outputs |->
        LET func == get_function(outputs[i].value)
        IN IF func.class = "GetAttribute"
           THEN [outputs[i] EXCEPT !.value = func]
           ELSE outputs[i]]

\* propvalue.result() of a GetInput: the value of the input.
GetInputResult == [class |-> "result", fn |-> "get_input"]

\* Variant of the capability loop: the property is replaced whatever the
\* function object is.
ResolveCapabilityPropertyAlways(value) == GetInputResult

\* _process_intrinsic_functions, the loop over a node template's
\* capabilities: a property is replaced, by the input's value, when the
\* function object is a GetInput.
ResolveCapabilityProperty(value) ==
    LET propvalue == get_function(value)
    IN IF propvalue.class = "GetInput" THEN GetInputResult ELSE value

\* _process_intrinsic_functions, the loop over self.nodetemplates: every
\* property, interface input, relationship property of a requirement and
\* interface input of a relationship template is assigned what
\* get_function returns for it.  values[i] holds the values of
\* nodetemplates[i].
ResolveNodeTemplates(values) ==
    [i \in DOMAIN values |->
        [properties     |-> get_function(values[i].properties),
         inputs         |-> get_function(values[i].inputs),
         rel_properties |-> get_function(values[i].rel_properties),
         cap_properties |->
             ResolveCapabilityProperty(values[i].cap_properties),
         rel_inputs     |-> get_function(values[i].rel_inputs)]]

\* _validate_group_members: one error per member outside the node names.
RECURSIVE ValidateMembersLoop(_, _, _)
ValidateMembersLoop(c, node_names, members) ==
    IF members = <<>> \/ c.raised # NoExc THEN c
    ELSE ValidateMembersLoop(
             IF Head(members) \notin node_names
             THEN appendExceptionTo(c, InvalidGroupTargetException(
                      "Target member \"" \o Head(members)
                      \o "\" is not found in node_templates"))
             ELSE c,
             node_names, Tail(members))

\* Variant of _validate_group_members: only the first member is checked.
_validate_first_group_member(c, nodetemplates, members) ==
    ValidateMembersLoop(c, {n.name : n \in Range(nodetemplates)},
                        SubSeq(members, 1, 1))

_validate_group_members(c, nodetemplates, members) ==
    ValidateMembersLoop(c, {n.name : n \in Range(nodetemplates)}, members)

\* for member in names: for obj in objs: if obj.name == member: append
RECURSIVE MatchByName(_, _)
MatchByName(objs, names) ==
    IF names = <<>> THEN <<>>
    ELSE SelectSeq(objs, LAMBDA o : o.name = Head(names))
         \o MatchByName(objs, Tail(names))

\* Variant of _get_group_members: the names are not validated.
_get_group_members_unchecked(c, nodetemplates, member_names) ==
    [c |-> c, member_nodes |-> MatchByName(nodetemplates, member_names)]

\* _get_group_members: validates, then collects the matching nodes.
_get_group_members(c, nodetemplates, member_names) ==
    LET c1 == _validate_group_members(c, nodetemplates, member_names)
    IN [c |-> c1, member_nodes |-> MatchByName(nodetemplates, member_names)]

\* Variant of _get_policy_groups: the loops are nested the other way round,
\* so the matches come in the order of the groups.
_get_policy_groups_by_group(groups, member_names) ==
    SelectSeq(groups, LAMBDA g : g.name \in Range(member_names))

_get_policy_groups(groups, member_names) == MatchByName(groups, member_names)

\* Variant of the group test of _policies: the list counts as groups only
\* when every target matched a group.
all_targets_are_groups(target_objects, target_list) ==
    Len(target_objects) = Len(target_list)

\* `if not target_objects` of _policies, negated: the group phase matched.
targets_are_groups(target_objects, target_list) == target_objects # <<>>

\* _groups: acc carries the collector state, the groups built so far and
\* the local member_nodes, which is assigned before the loop only.
RECURSIVE GroupsLoop(_, _, _)
GroupsLoop(acc, nodetemplates, tpls) ==
    IF tpls = <<>> \/ acc.c.raised # NoExc THEN acc
    ELSE
      LET g == Head(tpls)
          member_names == g.members
          bad == Len(member_names) < 1
                 \/ Len(member_names) # Cardinality(Range(member_names))
          r == IF member_names = None THEN
                   [c |-> acc.c, member_nodes |-> acc.member_nodes]
               ELSE IF bad THEN
                   [c |-> appendExceptionTo(acc.c,
                             InvalidGroupTargetException(
                                 "Member nodes \"" \o ListRepr(member_names)
                                 \o "\" should be >= 1 and not repeated")),
                    member_nodes |-> acc.member_nodes]
               ELSE _get_group_members(acc.c, nodetemplates, member_names)
          c2 == Group__init__(r.c, g)
      IN GroupsLoop(
             IF c2.raised # NoExc
             THEN [acc EXCEPT !.c = c2]
             ELSE [c |-> c2,
                   groups |-> Append(acc.groups,
                                     Group(g.name, r.member_nodes)),
                   member_nodes |-> r.member_nodes],
             nodetemplates, Tail(tpls))

\* member_nodes = None, the value _groups gives the local before its loop.
NoMemberNodes == <<[class |-> "NoneType", name |-> "%None%"]>>

\* Variant of _groups: a group with an empty members list is left out.
_groups_without_empty(c, d, nodetemplates) ==
    LET r == GroupsLoop([c |-> c, groups |-> <<>>,
                         member_nodes |-> NoMemberNodes],
                        nodetemplates, _tpl_groups(d))
    IN [r EXCEPT !.groups =
            SelectSeq(@, LAMBDA g :
                \A i \in DOMAIN d.groups :
                    d.groups[i].name = g.name => d.groups[i].members # <<>>)]

_groups(c, d, nodetemplates) ==
    GroupsLoop([c |-> c, groups |-> <<>>, member_nodes |-> NoMemberNodes],
               nodetemplates, _tpl_groups(d))

\* Variant of the test of _policies: an empty targets list passes.
has_targets_key(target_list) == target_list # None

\* `if target_list and len(target_list) >= 1` of _policies.
has_targets(target_list) == target_list # None /\ Len(target_list) >= 1

\* _policies: a policy is built only for a non-empty targets list.
RECURSIVE PoliciesLoop(_, _, _, _)
PoliciesLoop(acc, nodetemplates, groups, tpls) ==
    IF tpls = <<>> \/ acc.c.raised # NoExc THEN acc
    ELSE
      LET p == Head(tpls)
          target_list == p.targets
          as_groups == _get_policy_groups(groups, target_list)
          as_nodes == _get_group_members(acc.c, nodetemplates, target_list)
          r == IF targets_are_groups(as_groups, target_list)
               THEN [c |-> acc.c, targets_type |-> "groups",
                     target_objects |-> as_groups]
               ELSE [c |-> as_nodes.c, targets_type |-> "node_templates",
                     target_objects |-> as_nodes.member_nodes]
          c2 == Policy__init__(r.c, p)
      IN PoliciesLoop(
             IF ~has_targets(target_list) THEN acc
             ELSE IF c2.raised # NoExc THEN [acc EXCEPT !.c = c2]
             ELSE [c |-> c2,
                   policies |-> Append(acc.policies,
                                       Policy(p.name, r.target_objects,
                                              r.targets_type))],
             nodetemplates, groups, Tail(tpls))

_policies(c, d, nodetemplates, groups) ==
    PoliciesLoop([c |-> c, policies |-> <<>>], nodetemplates, groups,
                 _tpl_policies(d))

\* The raw mappings handed to Policy by a direct call.
PolicyTpls ==
    [name : Range(PolicyOrder), targets : {None, <<"a">>},
     extra : DirectPolicyExtra, has_type : BOOLEAN]

NoPolicyTpl == [name |-> "", targets |-> None, extra |-> <<>>,
                has_type |-> TRUE]

\* Policy(name, policy, None, None), called by a client of the class.
NewPolicy(p) ==
    /\ Idle
    /\ LET c == Policy__init__([collecting |-> collecting,
                                exceptions |-> exceptions,
                                raised |-> NoExc, produced |-> <<>>], p)
       IN /\ exceptions' = c.exceptions
          /\ raised' = c.raised
          /\ produced' = c.produced
    /\ entity_tpl' = p
    /\ lastOp' = [op |-> "Policy", arg |-> NoExc]
    /\ UNCHANGED <<collecting, pc, doc, stagesRun, tt, propdef,
                 occurrences, runs>>

(***************************************************************************)
(* TopologyTemplate.__init__: the stages in the order the constructor      *)
(* calls them.  pc names the stage about to run.                           *)
(***************************************************************************)
\* Variant of the stage order: the graph is built before the outputs.
StageOrderGraphFirst ==
    <<"_validate_field", "_inputs", "_relationship_templates",
      "_nodetemplates", "ToscaGraph", "_outputs", "_groups", "_policies",
      "_process_intrinsic_functions">>

\* Variant of the stage order: the functions are resolved before the
\* policies are built.
StageOrderFunctionsBeforePolicies ==
    <<"_validate_field", "_inputs", "_relationship_templates",
      "_nodetemplates", "_outputs", "ToscaGraph", "_groups",
      "_process_intrinsic_functions", "_policies">>

StageOrder == <<"_validate_field", "_inputs", "_relationship_templates",
                "_nodetemplates", "_outputs", "ToscaGraph", "_groups",
                "_policies", "_process_intrinsic_functions">>

IndexOf(s, x) == CHOOSE i \in DOMAIN s : s[i] = x

After(stage) ==
    LET i == IndexOf(StageOrder, stage)
    IN IF i < Len(StageOrder) THEN StageOrder[i + 1] ELSE "done"

\* values[i] holds the values of nodetemplates[i] that function
\* resolution visits.
NewObject == [attrs |-> {}, nodetemplates |-> <<>>, values |-> <<>>,
              outputs |-> <<>>, groups |-> <<>>, policies |-> <<>>]

\* TopologyTemplate(template, ...): the call; nothing runs on a falsy tpl.
Construct(d) ==
    /\ Idle
    /\ Len(exceptions) <= MaxPrior
    /\ doc' = d
    /\ tt' = [NewObject EXCEPT !.attrs = {"tpl"}]
    /\ pc' = IF TplKeys(d) # <<>> THEN StageOrder[1] ELSE "done"
    /\ stagesRun' = <<>>
    /\ produced' = <<>>
    /\ raised' = NoExc
    /\ lastOp' = [op |-> "TopologyTemplate", arg |-> NoExc]
    /\ UNCHANGED <<exceptions, collecting, entity_tpl, propdef,
                 occurrences, runs>>

\* Variant of a stage: an exception raised by the stage is swallowed and
\* the constructor goes on with the next stage.
StageStepKeepsGoing(stage, c, obj) ==
    /\ pc = stage
    /\ stagesRun' = Append(stagesRun, stage)
    /\ exceptions' = c.exceptions
    /\ produced' = c.produced
    /\ raised' = c.raised
    /\ pc' = After(stage)
    /\ tt' = obj
    /\ lastOp' = [op |-> stage, arg |-> NoExc]
    /\ UNCHANGED <<collecting, doc, entity_tpl, propdef,
                 occurrences, runs>>

\* One stage: c is the collector state the stage leaves, obj the object's
\* fields after it.  A raised exception leaves the constructor at once.
StageStep(stage, c, obj) ==
    /\ pc = stage
    /\ stagesRun' = Append(stagesRun, stage)
    /\ exceptions' = c.exceptions
    /\ produced' = c.produced
    /\ raised' = c.raised
    /\ pc' = IF c.raised # NoExc THEN "raised" ELSE After(stage)
    /\ tt' = IF c.raised # NoExc THEN tt ELSE obj
    /\ lastOp' = [op |-> stage, arg |-> NoExc]
    /\ UNCHANGED <<collecting, doc, entity_tpl, propdef,
                 occurrences, runs>>

Assign(obj, attr) == [obj EXCEPT !.attrs = @ \cup {attr}]

RunValidateField ==
    StageStep("_validate_field", _validate_field(NewCollectorRun, doc),
              Assign(tt, "description"))

RunInputs ==
    StageStep("_inputs", NewCollectorRun, Assign(tt, "inputs"))

RunRelationshipTemplates ==
    StageStep("_relationship_templates", NewCollectorRun,
              Assign(tt, "relationship_templates"))

RunNodeTemplates ==
    LET r == _nodetemplates(NewCollectorRun, doc)
    IN StageStep("_nodetemplates", r.c,
                 [Assign(tt, "nodetemplates") EXCEPT
                      !.nodetemplates = r.nodetemplates,
                      !.values = r.values])

RunOutputs ==
    StageStep("_outputs", NewCollectorRun,
              [Assign(tt, "outputs") EXCEPT !.outputs = _outputs(doc)])

RunGraph ==
    StageStep("ToscaGraph", NewCollectorRun,
              IF "nodetemplates" \in tt.attrs THEN Assign(tt, "graph")
              ELSE tt)

RunGroups ==
    LET r == _groups(NewCollectorRun, doc, tt.nodetemplates)
    IN StageStep("_groups", r.c,
                 [Assign(tt, "groups") EXCEPT !.groups = r.groups])

RunPolicies ==
    LET r == _policies(NewCollectorRun, doc, tt.nodetemplates, tt.groups)
    IN StageStep("_policies", r.c,
                 [Assign(tt, "policies") EXCEPT !.policies = r.policies])

RunProcessIntrinsicFunctions ==
    StageStep("_process_intrinsic_functions", NewCollectorRun,
              [tt EXCEPT !.values = ResolveNodeTemplates(@),
                         !.outputs = _process_intrinsic_functions(@)])

Init ==
    /\ exceptions = <<>>
    /\ collecting = FALSE
    /\ raised = NoExc
    /\ lastOp = [op |-> "init", arg |-> NoExc]
    /\ pc = "idle"
    /\ doc = EmptyDoc
    /\ stagesRun = <<>>
    /\ produced = <<>>
    /\ tt = NewObject
    /\ entity_tpl = NoPolicyTpl
    /\ propdef = NoPropertyDef
    /\ occurrences = NoOccurrences
    /\ runs = [r \in Runs |-> NewRun]

Next ==
    \/ clear
    \/ start
    \/ stop
    \/ (Idle /\ \E e \in ExcInputs : appendException(e))
    \/ (Idle /\ \E d \in Docs : Construct(d))
    \/ RunValidateField
    \/ RunInputs
    \/ RunRelationshipTemplates
    \/ RunNodeTemplates
    \/ RunOutputs
    \/ RunGraph
    \/ RunGroups
    \/ RunPolicies
    \/ RunProcessIntrinsicFunctions

Spec == Init /\ [][Next]_vars

\* The same program on the documents that vary the sections.
NextSections ==
    \/ clear
    \/ start
    \/ stop
    \/ (Idle /\ \E e \in ExcInputs : appendException(e))
    \/ (Idle /\ \E d \in DocsSections : Construct(d))
    \/ RunValidateField
    \/ RunInputs
    \/ RunRelationshipTemplates
    \/ RunNodeTemplates
    \/ RunOutputs
    \/ RunGraph
    \/ RunGroups
    \/ RunPolicies
    \/ RunProcessIntrinsicFunctions

SpecSections == Init /\ [][NextSections]_vars

\* The same program on the documents that vary the groups' and policies'
\* fields, with policies also built by direct calls.
NextEntities ==
    \/ clear
    \/ start
    \/ stop
    \/ (Idle /\ \E p \in PolicyTpls : NewPolicy(p))
    \/ (Idle /\ \E d \in DocsTypes : Construct(d))
    \/ RunValidateField
    \/ RunInputs
    \/ RunRelationshipTemplates
    \/ RunNodeTemplates
    \/ RunOutputs
    \/ RunGraph
    \/ RunGroups
    \/ RunPolicies
    \/ RunProcessIntrinsicFunctions

SpecEntities == Init /\ [][NextEntities]_vars

\* The same program on the documents that vary which policy entries have
\* targets.
NextPolicies ==
    \/ clear
    \/ start
    \/ stop
    \/ (Idle /\ \E d \in DocsPolicies : Construct(d))
    \/ RunValidateField
    \/ RunInputs
    \/ RunRelationshipTemplates
    \/ RunNodeTemplates
    \/ RunOutputs
    \/ RunGraph
    \/ RunGroups
    \/ RunPolicies
    \/ RunProcessIntrinsicFunctions

SpecPolicies == Init /\ [][NextPolicies]_vars

\* The same program on the documents that vary the values function
\* resolution visits.
NextFunctions ==
    \/ clear
    \/ start
    \/ stop
    \/ (Idle /\ \E d \in DocsFunctions : Construct(d))
    \/ RunValidateField
    \/ RunInputs
    \/ RunRelationshipTemplates
    \/ RunNodeTemplates
    \/ RunOutputs
    \/ RunGraph
    \/ RunGroups
    \/ RunPolicies
    \/ RunProcessIntrinsicFunctions

SpecFunctions == Init /\ [][NextFunctions]_vars

\* Property definitions built while the collector is started and stopped.
NextPropertyDef ==
    \/ clear
    \/ start
    \/ stop
    \/ (Idle /\ \E name \in PropertyNames, schema \in Schemas :
                    NewPropertyDef(name, schema))
    \/ GetRequired
    \/ GetDefault

SpecPropertyDef == Init /\ [][NextPropertyDef]_vars

\* Requirements' `occurrences` values checked while the collector is
\* started and stopped.
NextOccurrences ==
    \/ clear
    \/ start
    \/ stop
    \/ (Idle /\ \E occ \in OccurrencesValues : ValidateOccurrences(occ))

SpecOccurrences == Init /\ [][NextOccurrences]_vars

(***************************************************************************)
(* Read accessors of the collector.                                        *)
(***************************************************************************)
getExceptions == exceptions
exceptionsCaught == Len(exceptions) > 0

\* Variant of getExceptionReportEntry: the class name is left out.
getExceptionReportEntryMessageOnly(exception) == exception.msg

\* getExceptionReportEntry(exception, full=False)
getExceptionReportEntry(exception) == exception.kind \o ": " \o exception.msg

\* getExceptionsReport(full=False)
getExceptionsReport ==
    [i \in DOMAIN exceptions |-> getExceptionReportEntry(exceptions[i])]

\* assertExceptionMessage(exception, message): TRUE when the assertion
\* passes; exception is the class, given by its name.
assertExceptionMessage(exception, message) ==
    (exception \o ": " \o message) \in Range(getExceptionsReport)

(***************************************************************************)
(* Validation runs on the process-wide collector.  A run calls start(),    *)
(* hands its errors to appendException, calls stop() and reads the report; *)
(* the collector's fields are class attributes, so every run of the        *)
(* process works on the same list and the same flag, and nothing orders    *)
(* the calls of two runs.                                                  *)
(***************************************************************************)
\* Run q acts: every other run that has begun and not yet read its report
\* is no longer alone.
Interleave(q) ==
    [r \in Runs |->
        IF r # q /\ runs[r].pc \in {"validating", "stopped"}
        THEN [runs[r] EXCEPT !.alone = FALSE]
        ELSE runs[r]]

\* Variant of a run's start(): the list is not emptied.
RunStartWithoutClear(q) ==
    /\ Idle
    /\ runs[q].pc = "new"
    /\ collecting' = TRUE
    /\ raised' = NoExc
    /\ lastOp' = [op |-> "start", arg |-> NoExc]
    /\ runs' = [Interleave(q) EXCEPT ![q] = [NewRun EXCEPT !.pc = "validating"]]
    /\ UNCHANGED <<exceptions, pc, doc, stagesRun, produced, tt, entity_tpl,
                 propdef, occurrences>>

\* Run q calls start().
RunStart(q) ==
    /\ Idle
    /\ runs[q].pc = "new"
    /\ exceptions' = <<>>
    /\ collecting' = TRUE
    /\ raised' = NoExc
    /\ lastOp' = [op |-> "start", arg |-> NoExc]
    /\ runs' = [Interleave(q) EXCEPT ![q] = [NewRun EXCEPT !.pc = "validating"]]
    /\ UNCHANGED <<pc, doc, stagesRun, produced, tt, entity_tpl, propdef,
                 occurrences>>

\* Run q calls appendException(e); an exception raised to the run ends it.
RunAppend(q, e) ==
    /\ Idle
    /\ runs[q].pc = "validating"
    /\ Len(runs[q].recorded) < MaxRecorded
    /\ LET c == appendExceptionTo([collecting |-> collecting,
                                   exceptions |-> exceptions,
                                   raised |-> NoExc, produced |-> <<>>], e)
       IN /\ exceptions' = c.exceptions
          /\ raised' = c.raised
          /\ runs' = [Interleave(q) EXCEPT ![q] =
                         IF c.raised # NoExc
                         THEN [@ EXCEPT !.pc = "raised"]
                         ELSE [@ EXCEPT !.recorded = Append(@, e)]]
    /\ lastOp' = [op |-> "appendException", arg |-> e]
    /\ UNCHANGED <<collecting, pc, doc, stagesRun, produced, tt, entity_tpl,
                 propdef, occurrences>>

\* Run q calls stop().
RunStop(q) ==
    /\ Idle
    /\ runs[q].pc = "validating"
    /\ collecting' = FALSE
    /\ raised' = NoExc
    /\ lastOp' = [op |-> "stop", arg |-> NoExc]
    /\ runs' = [Interleave(q) EXCEPT ![q].pc = "stopped"]
    /\ UNCHANGED <<exceptions, pc, doc, stagesRun, produced, tt, entity_tpl,
                 propdef, occurrences>>

\* Run q reads getExceptionsReport(False).
RunReport(q) ==
    /\ Idle
    /\ runs[q].pc = "stopped"
    /\ raised' = NoExc
    /\ lastOp' = [op |-> "getExceptionsReport", arg |-> NoExc]
    /\ runs' = [Interleave(q) EXCEPT ![q].pc = "reported",
                                     ![q].report = getExceptionsReport]
    /\ UNCHANGED <<exceptions, collecting, pc, doc, stagesRun, produced, tt,
                 entity_tpl, propdef, occurrences>>

NextRuns ==
    \/ \E q \in Runs : RunStart(q)
    \/ \E q \in Runs, e \in ExcInputs : RunAppend(q, e)
    \/ \E q \in Runs : RunStop(q)
    \/ \E q \in Runs : RunReport(q)

SpecRuns == Init /\ [][NextRuns]_vars

(***************************************************************************)
(* Properties of the ExceptionCollector.                                   *)
(***************************************************************************)
NoTwoEqualMessages ==
    \A i, j \in DOMAIN exceptions :
        exceptions[i].msg = exceptions[j].msg => i = j

StoredMessages == {exceptions[i].msg : i \in DOMAIN exceptions}

\* C1: the stored list never holds two exceptions with the same string
\* representation; while collecting, appendException(e) appends e at the
\* end only if no stored exception has an equal message and otherwise
\* leaves the list unchanged, whatever the kinds of the two exceptions.
C1_DedupByMessage ==
    /\ []NoTwoEqualMessages
    /\ [][(lastOp'.op = "appendException" /\ collecting)
          => exceptions' = IF lastOp'.arg.msg \in StoredMessages
                           THEN exceptions
                           ELSE exceptions \o <<lastOp'.arg>>]_vars

\* C1 witness: an exception was refused because a stored exception of
\* another kind has the same message, and the list holds two entries.
C1_Witness ==
    /\ lastOp.op = "appendException"
    /\ collecting
    /\ Len(exceptions) = 2
    /\ lastOp.arg \notin Range(exceptions)
    /\ \E i \in DOMAIN exceptions :
           /\ exceptions[i].msg = lastOp.arg.msg
           /\ exceptions[i].kind # lastOp.arg.kind

\* C2: whenever the collecting flag is off, appendException(e) raises e to
\* the caller and leaves the stored list exactly as it was.
C2_OffRaises ==
    [][(lastOp'.op = "appendException" /\ ~collecting)
       => (exceptions' = exceptions /\ raised' = lastOp'.arg)]_vars

\* C2 witness: collection was stopped with an exception stored, and a later
\* appendException raised its argument.
C2_Witness ==
    /\ lastOp.op = "appendException"
    /\ ~collecting
    /\ raised = lastOp.arg
    /\ raised \in ExcInputs
    /\ exceptions # <<>>

\* C3: start() leaves the list empty and the flag on; stop() turns the flag
\* off and leaves the list unchanged; while the flag is off the list, and so
\* what getExceptions() and exceptionsCaught() return, changes only by
\* start() or clear().
C3_StartStop ==
    [][/\ lastOp'.op = "start" => (exceptions' = <<>> /\ collecting' = TRUE)
       /\ lastOp'.op = "stop" =>
              (collecting' = FALSE /\ exceptions' = exceptions)
       /\ (~collecting /\ lastOp'.op \notin {"start", "clear"}) =>
              /\ getExceptions' = getExceptions
              /\ exceptionsCaught' = exceptionsCaught]_vars

\* C3 witness: stop() has acted on a collector holding recorded exceptions,
\* which are still there.
C3_Witness ==
    /\ lastOp.op = "stop"
    /\ ~collecting
    /\ Len(getExceptions) = 2
    /\ exceptionsCaught

(***************************************************************************)
(* Properties of TopologyTemplate construction.                            *)
(***************************************************************************)
IsPrefix(s, t) == Len(s) <= Len(t) /\ s = SubSeq(t, 1, Len(s))

NonEmptyDoc == TplKeys(doc) # <<>>

\* The stage order as section 4.10 of the specification lists it.
ListedStages ==
    <<"_validate_field", "_inputs", "_relationship_templates",
      "_nodetemplates", "ToscaGraph", "_outputs", "_groups", "_policies",
      "_process_intrinsic_functions">>

\* The same stages with build-outputs before build-graph.
OutputsBeforeGraph ==
    <<"_validate_field", "_inputs", "_relationship_templates",
      "_nodetemplates", "_outputs", "ToscaGraph", "_groups", "_policies",
      "_process_intrinsic_functions">>

\* C4 as stated: the stages run at most once each and in the listed order
\* validate-top-level-fields, build-inputs, build-relationship-templates,
\* build-node-templates, build-graph, build-outputs, build-groups,
\* build-policies, resolve-functions.
C4_ListedOrder ==
    /\ IsPrefix(stagesRun, ListedStages)
    /\ (pc = "done" /\ NonEmptyDoc) => stagesRun = ListedStages

\* C4 amended: the stages run at most once each and in the order
\* validate-top-level-fields, build-inputs, build-relationship-templates,
\* build-node-templates, build-outputs, build-graph, build-groups,
\* build-policies, resolve-functions; a construction that completes on a
\* non-empty document has run all nine.
C4_OutputsBeforeGraph ==
    /\ IsPrefix(stagesRun, OutputsBeforeGraph)
    /\ (pc = "done" /\ NonEmptyDoc) => stagesRun = OutputsBeforeGraph

\* C4 witness: a construction on a non-empty document has completed.
C4_Witness ==
    /\ pc = "done"
    /\ NonEmptyDoc
    /\ Len(stagesRun) = 9

\* C5: in collecting mode every error a stage produces is stored instead
\* of raised, and construction goes through every stage until
\* resolve-functions has run.
C5_CollectingGoesOn ==
    (collecting /\ pc # "idle") =>
        /\ raised = NoExc
        /\ pc # "raised"
        /\ \A i \in DOMAIN produced : produced[i] \in Range(exceptions)
        /\ (pc = "done" /\ NonEmptyDoc) =>
               /\ Len(stagesRun) = 9
               /\ stagesRun[9] = "_process_intrinsic_functions"

\* C5 witness: a collecting construction completed after it stored an
\* unknown top-level key, an empty members list, an unresolvable policy
\* target and an unknown policy key.
C5_Witness ==
    /\ collecting
    /\ pc = "done"
    /\ Len(exceptions) >= 4
    /\ \E i, j, k, l \in DOMAIN produced :
           /\ i < j /\ j < k /\ k < l
           /\ produced[i] = UnknownFieldError("Template", "node_template")
           /\ produced[j] = InvalidGroupTargetException(
                  "Member nodes \"[]\" should be >= 1 and not repeated")
           /\ produced[k] = InvalidGroupTargetException(
                  "Target member \"a\" is not found in node_templates")
           /\ produced[l] = UnknownFieldError("Policy \"p\"", "testkey")

\* Every error the document's stages produce, in order (what a collecting
\* run on an empty collector hands to appendException).
AllErrors(d) ==
    LET c0 == [collecting |-> TRUE, exceptions |-> <<>>, raised |-> NoExc,
               produced |-> <<>>]
        c1 == _validate_field(c0, d)
        n  == _nodetemplates(c1, d)
        g  == _groups(n.c, d, n.nodetemplates)
        p  == _policies(g.c, d, n.nodetemplates, g.groups)
    IN p.c.produced

\* C6: with collection off the first error any stage produces propagates
\* out of the constructor at that point: no later stage runs, no later
\* error is reported and the stored list is unchanged.
C6_FailFast ==
    /\ [](~collecting /\ pc # "idle" =>
            /\ produced = <<>> =>
                   /\ raised = NoExc
                   /\ pc # "raised"
                   /\ pc = "done" => AllErrors(doc) = <<>>
            /\ produced # <<>> =>
                   /\ Len(produced) = 1
                   /\ raised = produced[1]
                   /\ raised = AllErrors(doc)[1]
                   /\ pc = "raised")
    /\ [][(~collecting /\ pc' # "idle") => exceptions' = exceptions]_vars
    /\ [][pc = "raised" => (stagesRun' = stagesRun /\ raised' = raised)]_vars

\* C6 witness: with an exception stored and collection off, the groups
\* stage raised the first of several errors of the document.
C6_Witness ==
    /\ ~collecting
    /\ pc = "raised"
    /\ lastOp.op = "_groups"
    /\ exceptions # <<>>
    /\ Len(AllErrors(doc)) >= 2
    /\ raised = AllErrors(doc)[1]

(***************************************************************************)
(* Properties of policy target resolution.                                 *)
(***************************************************************************)
PoliciesBuilt == pc \in {"_process_intrinsic_functions", "done"}

BuiltGroupNames == {tt.groups[i].name : i \in DOMAIN tt.groups}
BuiltNodeNames == {tt.nodetemplates[i].name : i \in DOMAIN tt.nodetemplates}
BuiltGroup(name) == CHOOSE g \in Range(tt.groups) : g.name = name
BuiltPolicy(name) == CHOOSE p \in Range(tt.policies) : p.name = name

\* The policy entry's targets are [g1, n1]: g1 names a built group, n1
\* names no group.
MixedTargets(t) ==
    /\ t # None
    /\ Len(t) = 2
    /\ t[1] \in BuiltGroupNames
    /\ t[2] \notin BuiltGroupNames

\* C7 as stated: for targets [g1, n1] the whole list goes through
\* node-template resolution, and the partial group match is not what the
\* policy reports as its targets.
C7_NodeResolutionForWholeList ==
    PoliciesBuilt =>
        \A i \in DOMAIN doc.policies :
            MixedTargets(doc.policies[i].targets) =>
                \E p \in Range(tt.policies) :
                    /\ p.name = doc.policies[i].name
                    /\ p.targets_type = "node_templates"
                    /\ p.targets_list # <<BuiltGroup(doc.policies[i].targets[1])>>

\* C7 amended: for targets [g1, n1] the policy reports the partial group
\* match (targets_type "groups", targets_list [g1]); node-template
\* resolution is not attempted, so the policies stage produces no
\* InvalidGroupTargetException for such a list.
C7_PartialGroupMatch ==
    /\ [](PoliciesBuilt =>
            \A i \in DOMAIN doc.policies :
                MixedTargets(doc.policies[i].targets) =>
                    \E p \in Range(tt.policies) :
                        /\ p.name = doc.policies[i].name
                        /\ p.targets_type = "groups"
                        /\ p.targets_list =
                               <<BuiltGroup(doc.policies[i].targets[1])>>)
    /\ [][(/\ pc = "_policies"
           /\ \A i \in DOMAIN doc.policies :
                  MixedTargets(doc.policies[i].targets))
          => /\ raised'.kind # "InvalidGroupTargetException"
             /\ \A k \in (Len(produced) + 1)..Len(produced') :
                    produced'[k].kind # "InvalidGroupTargetException"]_vars

\* C7 witness: a policy with targets [g1, n1] was built while n1 names a
\* node template and g1 does not.
C7_Witness ==
    /\ PoliciesBuilt
    /\ \E i \in DOMAIN doc.policies :
           /\ MixedTargets(doc.policies[i].targets)
           /\ doc.policies[i].targets[2] \in BuiltNodeNames
           /\ doc.policies[i].targets[1] \notin BuiltNodeNames
           /\ BuiltPolicy(doc.policies[i].name).targets_type = "groups"

\* C8: for every policy with a non-empty targets list, targets_type is
\* "groups" exactly when some target names a built group, and then
\* targets_list holds the matched groups in target order; otherwise
\* targets_type is "node_templates" and targets_list holds the matched node
\* templates in target order.  A targets_list never mixes the two.
C8_TargetsTyped ==
    PoliciesBuilt =>
        \A i \in DOMAIN doc.policies :
            LET t == doc.policies[i].targets
                anyGroup == \E k \in DOMAIN t : t[k] \in BuiltGroupNames
                asGroups == SelectSeq(t, LAMBDA x : x \in BuiltGroupNames)
                asNodes == SelectSeq(t, LAMBDA x : x \in BuiltNodeNames)
            IN (t # None /\ t # <<>>) =>
                 \E p \in Range(tt.policies) :
                    /\ p.name = doc.policies[i].name
                    /\ p.targets_type = "groups" <=> anyGroup
                    /\ p.targets_type \in {"groups", "node_templates"}
                    /\ anyGroup =>
                         p.targets_list =
                             [k \in DOMAIN asGroups |-> BuiltGroup(asGroups[k])]
                    /\ ~anyGroup =>
                         p.targets_list =
                             [k \in DOMAIN asNodes |-> NodeTemplate(asNodes[k])]
                    /\ \A k, l \in DOMAIN p.targets_list :
                         p.targets_list[k].class = p.targets_list[l].class

\* C8 witness: a policy was built whose two targets name the two groups in
\* the reverse of the groups' own order, and another name of the document
\* matched nothing.
C8_Witness ==
    /\ pc = "done"
    /\ \E p \in Range(tt.policies) :
           /\ p.targets_type = "groups"
           /\ Len(p.targets_list) = 2
           /\ p.targets_list[1].name = GroupOrder[2]
           /\ p.targets_list[2].name = GroupOrder[1]

(***************************************************************************)
(* Properties of group member validation.                                  *)
(***************************************************************************)
GroupsBuilt == "groups" \in tt.attrs

\* The members list is empty or names some node twice.
EmptyOrRepeated(m) ==
    \/ m = <<>>
    \/ \E i, j \in DOMAIN m : i # j /\ m[i] = m[j]

\* The list as the document gives it, printed as Python prints a list.
RECURSIVE Printed(_, _)
Printed(m, n) ==
    IF n = 0 THEN ""
    ELSE Printed(m, n - 1) \o (IF n > 1 THEN ", " ELSE "")
         \o "'" \o m[n] \o "'"

MemberNodesError(m) ==
    InvalidGroupTargetException(
        "Member nodes \"[" \o Printed(m, Len(m))
        \o "]\" should be >= 1 and not repeated")

NotFoundError(name) ==
    InvalidGroupTargetException(
        "Target member \"" \o name \o "\" is not found in node_templates")

\* The group entry hands nothing to the collector: no members, or a
\* non-empty list without repetitions whose names are all built nodes.
CleanGroup(g) ==
    \/ g.members = None
    \/ /\ ~EmptyOrRepeated(g.members)
       /\ Range(g.members) \subseteq BuiltNodeNames

\* The groups stage has just run with collection off, and every entry
\* before entry i was clean.
FailFastReached(i) ==
    /\ ~collecting
    /\ lastOp.op = "_groups"
    /\ \A j \in 1..(i - 1) : CleanGroup(doc.groups[j])

\* C9: a group whose members list is empty or repeats a name produces the
\* InvalidGroupTargetException 'Member nodes "<list>" should be >= 1 and
\* not repeated' with the list printed as given (stored while collecting,
\* raised in fail-fast mode when the constructor gets to that group); a
\* non-empty list without repetitions never produces this error.
C9_MemberNodesError ==
    /\ \A i \in DOMAIN doc.groups :
           LET m == doc.groups[i].members
           IN (m # None /\ EmptyOrRepeated(m)) =>
                /\ (collecting /\ GroupsBuilt) =>
                       /\ MemberNodesError(m) \in Range(exceptions)
                       /\ MemberNodesError(m) \in Range(produced)
                /\ FailFastReached(i) =>
                       /\ raised = MemberNodesError(m)
                       /\ pc = "raised"
    /\ \A e \in Range(produced) \cup {raised} :
           (/\ e.kind = "InvalidGroupTargetException"
            /\ e \notin {NotFoundError(n) : n \in Names}) =>
               \E i \in DOMAIN doc.groups :
                   /\ doc.groups[i].members # None
                   /\ EmptyOrRepeated(doc.groups[i].members)
                   /\ e = MemberNodesError(doc.groups[i].members)

\* C9 witness: a collecting construction completed on a document whose
\* group lists a node twice, and the error names the list as given.
C9_Witness ==
    /\ collecting
    /\ pc = "done"
    /\ \E i \in DOMAIN doc.groups : doc.groups[i].members = <<"b", "b">>
    /\ \E i \in DOMAIN exceptions :
           exceptions[i] = InvalidGroupTargetException(
               "Member nodes \"['b', 'b']\" should be >= 1 and not repeated")

\* C10 as stated: every name of a group's members list that is absent
\* from the built node templates produces the InvalidGroupTargetException
\* 'Target member "<name>" is not found in node_templates' (stored while
\* collecting, raised in fail-fast mode when the constructor gets to it).
C10_EveryAbsentMember ==
    \A i \in DOMAIN doc.groups :
        LET m == doc.groups[i].members
            absent == SelectSeq(m, LAMBDA x : x \notin BuiltNodeNames)
        IN (m # None /\ absent # <<>>) =>
             /\ (collecting /\ GroupsBuilt) =>
                    \A k \in DOMAIN absent :
                        NotFoundError(absent[k]) \in Range(exceptions)
             /\ FailFastReached(i) =>
                    /\ raised = NotFoundError(absent[1])
                    /\ pc = "raised"

\* C10 amended: every name of a non-empty members list without repetitions
\* that is absent from the built node templates produces the 'Target
\* member "<name>" is not found in node_templates' error (stored while
\* collecting; in fail-fast mode the first such name is raised when the
\* constructor gets to it); a list rejected as empty or repeated is not
\* checked against the node templates, so the groups stage produces this
\* error for no other name.
C10_AbsentMemberOfValidList ==
    /\ [](\A i \in DOMAIN doc.groups :
            LET m == doc.groups[i].members
                absent == SelectSeq(m, LAMBDA x : x \notin BuiltNodeNames)
            IN (m # None /\ ~EmptyOrRepeated(m) /\ absent # <<>>) =>
                 /\ (collecting /\ GroupsBuilt) =>
                        \A k \in DOMAIN absent :
                            /\ NotFoundError(absent[k]) \in Range(exceptions)
                            /\ NotFoundError(absent[k]) \in Range(produced)
                 /\ FailFastReached(i) =>
                        /\ raised = NotFoundError(absent[1])
                        /\ pc = "raised")
    /\ [][pc = "_groups" =>
            \A n \in Names :
                (NotFoundError(n) \in
                     {produced'[k] : k \in (Len(produced) + 1)..Len(produced')})
                => \E i \in DOMAIN doc.groups :
                       LET m == doc.groups[i].members
                       IN /\ m # None
                          /\ ~EmptyOrRepeated(m)
                          /\ n \in Range(m)
                          /\ n \notin BuiltNodeNames]_vars

\* C10 witness: a collecting construction completed on a document whose
\* group lists two distinct names, neither of them a built node, and both
\* errors are stored.
C10_Witness ==
    /\ collecting
    /\ pc = "done"
    /\ BuiltNodeNames = {}
    /\ \E i \in DOMAIN doc.groups : doc.groups[i].members = <<"b", "a">>
    /\ \E i, j \in DOMAIN exceptions :
           /\ i < j
           /\ exceptions[i] = InvalidGroupTargetException(
                  "Target member \"b\" is not found in node_templates")
           /\ exceptions[j] = InvalidGroupTargetException(
                  "Target member \"a\" is not found in node_templates")

\* C25: every Group is constructed with the node templates resolved from
\* its own members list only (in member order, one per resolvable name):
\* a group whose members field is absent, or whose list was rejected as
\* empty or repeated, is given no member nodes, never the member nodes
\* resolved for a group processed earlier in the same document.
C25_OwnMembersOnly ==
    GroupsBuilt =>
        \A i \in DOMAIN tt.groups :
            LET m == doc.groups[i].members
                given == tt.groups[i].member_nodes
                resolvable == SelectSeq(m, LAMBDA x : x \in BuiltNodeNames)
            IN IF m = None \/ EmptyOrRepeated(m)
               THEN given \in {<<>>, <<[class |-> "NoneType",
                                       name |-> "%None%"]>>}
               ELSE given = [k \in DOMAIN resolvable |->
                               [class |-> "NodeTemplate",
                                name |-> resolvable[k]]]

(***************************************************************************)
(* Properties of the sections of a document.                               *)
(***************************************************************************)
\* Number of entries of s equal to e.
Count(s, e) == Cardinality({i \in DOMAIN s : s[i] = e})

\* The recognized top-level keys.
RecognizedKeys ==
    {"description", "inputs", "node_templates", "relationship_templates",
     "outputs", "groups", "substitution_mappings", "policies"}

UnknownTemplateField(key) ==
    [kind |-> "UnknownFieldError",
     msg  |-> "Template contains unknown field \"" \o key
              \o "\". Refer to the definition to verify valid values."]

\* C11: for every document, each top-level key outside the eight
\* recognized keys produces exactly one UnknownFieldError with what
\* 'Template' naming that key (stored while collecting; in fail-fast mode
\* the first such key's error is raised), and none of the recognized keys
\* produces one.
C11_UnknownTopLevelKeys ==
    (pc # "idle" /\ stagesRun # <<>>) =>
        LET keys == TplKeys(doc)
            unknown == SelectSeq(keys, LAMBDA k : k \notin RecognizedKeys)
        IN /\ \A k \in Range(keys) \cap RecognizedKeys :
                  /\ Count(produced, UnknownTemplateField(k)) = 0
                  /\ raised # UnknownTemplateField(k)
           /\ collecting =>
                  \A k \in Range(unknown) :
                      /\ Count(produced, UnknownTemplateField(k)) = 1
                      /\ Count(exceptions, UnknownTemplateField(k)) = 1
           /\ (~collecting /\ unknown # <<>>) =>
                  /\ produced = <<UnknownTemplateField(unknown[1])>>
                  /\ raised = UnknownTemplateField(unknown[1])
                  /\ pc = "raised"

\* C11 witness: a collecting construction completed on a document with two
\* unknown keys among recognized ones, and both errors are stored.
C11_Witness ==
    /\ collecting
    /\ pc = "done"
    /\ "substitution_mappings" \in Range(TplKeys(doc))
    /\ \E i, j \in DOMAIN exceptions :
           /\ i < j
           /\ exceptions[i] = UnknownTemplateField("node_template")
           /\ exceptions[j] = UnknownTemplateField("abc")

NodesBuilt == "nodetemplates" \in tt.attrs

\* The entry's type is a known built-in type or is defined in the custom
\* definitions.
TypeResolves(t) ==
    t.type = "tosca.nodes.Compute" \/ t.type \in doc.custom_defs

\* The node_templates entries whose type resolves, in document order.
ResolvingEntries ==
    IF doc.nodes = NoneTpls THEN <<>>
    ELSE SelectSeq(doc.nodes, TypeResolves)

IsFunctionShape(value) ==
    /\ value.class = "dict"
    /\ value.fn \in {"get_input", "get_property", "get_attribute"}

\* The value is a resolved function object.
IsFunctionObject(value) ==
    value.class \in {"GetInput", "GetProperty", "GetAttribute"}

\* C13: after construction completes, every top-level output whose value
\* is a function-call shape (get_input, get_property or get_attribute)
\* holds the resolved function object in place of its raw value.
C13_OutputsResolved ==
    (pc = "done" /\ NonEmptyDoc) =>
        \A i \in DOMAIN doc.outputs :
            IsFunctionShape(doc.outputs[i].value) =>
                /\ IsFunctionObject(tt.outputs[i].value)
                /\ tt.outputs[i].value.fn = doc.outputs[i].value.fn

\* The stages that build the relationship templates, the node templates,
\* the groups and the policies.
BuildStages ==
    {"_relationship_templates", "_nodetemplates", "_groups", "_policies"}

\* C14: function resolution starts only after build-relationship-
\* templates, build-node-templates, build-groups and build-policies have
\* all completed: no function is resolved while the node, group or policy
\* list is still being built.
C14_ResolutionAfterBuild ==
    /\ [][lastOp'.op = "_process_intrinsic_functions" =>
            /\ BuildStages \subseteq Range(stagesRun)
            /\ {"relationship_templates", "nodetemplates", "groups",
                "policies"} \subseteq tt.attrs]_vars
    /\ []((\E i \in DOMAIN tt.outputs : IsFunctionObject(tt.outputs[i].value))
            => /\ BuildStages \subseteq Range(stagesRun)
               /\ pc = "done")

\* C14 witness: a construction completed with a resolved function in an
\* output, after nodes were built.
C14_Witness ==
    /\ pc = "done"
    /\ Len(tt.nodetemplates) = 2
    /\ \E i \in DOMAIN tt.outputs : tt.outputs[i].value.class = "GetAttribute"

\* C15: when the document has no node_templates at all, the build-graph
\* stage is skipped entirely (no graph is constructed) and construction
\* continues with the later stages without failing.
C15_GraphSkipped ==
    (NonEmptyDoc /\ doc.nodes = NoneTpls /\ "outputs" \in tt.attrs
       /\ pc # "ToscaGraph") =>
        /\ "graph" \notin tt.attrs
        /\ collecting => pc # "raised"

\* The names of the values of a node template that the claim lists.
ListedSlots == {"properties", "inputs", "rel_properties", "cap_properties"}

SlotOf(v, slot) ==
    CASE slot = "properties" -> v.properties
      [] slot = "inputs" -> v.inputs
      [] slot = "rel_properties" -> v.rel_properties
      [] OTHER -> v.cap_properties

\* C23: function resolution leaves unchanged every node property value,
\* interface input, requirement-embedded relationship property, capability
\* property and output value that is not a function-call shape.
C23_NonFunctionsUntouched ==
    /\ [][lastOp'.op = "_process_intrinsic_functions" =>
            /\ DOMAIN tt'.values = DOMAIN tt.values
            /\ \A i \in DOMAIN tt.values, slot \in ListedSlots :
                   ~IsFunctionShape(SlotOf(tt.values[i], slot)) =>
                       SlotOf(tt'.values[i], slot) = SlotOf(tt.values[i], slot)
            /\ DOMAIN tt'.outputs = DOMAIN tt.outputs
            /\ \A i \in DOMAIN tt.outputs :
                   ~IsFunctionShape(tt.outputs[i].value) =>
                       tt'.outputs[i] = tt.outputs[i]]_vars
    /\ []((pc = "done" /\ NonEmptyDoc) =>
            /\ \A i \in DOMAIN doc.outputs :
                   ~IsFunctionShape(doc.outputs[i].value) =>
                       tt.outputs[i].value = doc.outputs[i].value
            /\ doc.nodes # NoneTpls =>
                   \A i \in DOMAIN tt.values, slot \in ListedSlots :
                       ~IsFunctionShape(SlotOf(doc.nodes[i].values, slot)) =>
                           SlotOf(tt.values[i], slot)
                               = SlotOf(doc.nodes[i].values, slot))

\* C23 witness: a construction completed on a node whose property is a
\* plain string and whose interface input is a get_input shape, with a
\* plain output: the input was resolved, the property and the output are
\* as the document gives them.
C23_Witness ==
    /\ pc = "done"
    /\ Len(tt.values) = 1
    /\ doc.nodes[1].values.properties = [class |-> "str", fn |-> ""]
    /\ tt.values[1].properties = [class |-> "str", fn |-> ""]
    /\ doc.nodes[1].values.cap_properties = [class |-> "str", fn |-> ""]
    /\ tt.values[1].cap_properties = [class |-> "str", fn |-> ""]
    /\ doc.nodes[1].values.inputs = [class |-> "dict", fn |-> "get_input"]
    /\ tt.values[1].inputs = [class |-> "GetInput", fn |-> "get_input"]
    /\ tt.outputs[1].value = [class |-> "str", fn |-> ""]

(***************************************************************************)
(* Properties of PropertyDef.                                              *)
(***************************************************************************)
\* The string is "true" or "false", whatever the case of its letters.
IsTrueOrFalseIgnoringCase(chars) ==
    \/ /\ Len(chars) = 4
       /\ chars[1] \in {"t", "T"} /\ chars[2] \in {"r", "R"}
       /\ chars[3] \in {"u", "U"} /\ chars[4] \in {"e", "E"}
    \/ /\ Len(chars) = 5
       /\ chars[1] \in {"f", "F"} /\ chars[2] \in {"a", "A"}
       /\ chars[3] \in {"l", "L"} /\ chars[4] \in {"s", "S"}
       /\ chars[5] \in {"e", "E"}

\* The `required` flag is one the schema may carry.
AcceptedRequired(r) ==
    r.t = "bool" \/ (r.t = "str" /\ IsTrueOrFalseIgnoringCase(r.chars))

MissingTypeError(name) ==
    [kind |-> "InvalidSchemaError",
     msg  |-> "Schema definition of \"" \o name
              \o "\" must have a \"type\" attribute."]

InvalidRequiredError(name, value) ==
    [kind |-> "InvalidSchemaError",
     msg  |-> "Schema definition of \"" \o name
              \o "\" has \"required\" attribute with invalid value \""
              \o value \o "\". The value must be one of \"true, false\"."]

\* str() of the values a schema carries.
Shown(r) ==
    CASE r = PyInt("1") -> "1"
      [] r = PyInt("0") -> "0"
      [] r = PyNone -> "None"
      [] r = PyEmptyList -> "[]"
      [] r = PyTrue -> "True"
      [] r = PyFalse -> "False"
      [] r = PyStr(<<"y", "e", "s">>) -> "yes"
      [] r = PyStr(<<>>) -> ""
      [] r = PyStr(<<"x">>) -> "x"
      [] OTHER -> "true or false"

PropertyDefCalled == lastOp.op = "PropertyDef"

\* C16: a schema's `required` flag is accepted without error if and only
\* if it is a boolean or a string equal, ignoring case, to "true" or
\* "false"; every other value (any other string, a number, null, a list)
\* produces an InvalidSchemaError naming the property and the offending
\* value.
C16_RequiredFlag ==
    (/\ PropertyDefCalled
     /\ propdef.schema.has_type
     /\ propdef.schema.required # Absent) =>
        LET r == propdef.schema.required
            e == InvalidRequiredError(propdef.name, Shown(r))
        IN /\ AcceptedRequired(r) => (produced = <<>> /\ raised = NoExc)
           /\ ~AcceptedRequired(r) =>
                  /\ produced = <<e>>
                  /\ collecting => (e \in Range(exceptions) /\ raised = NoExc)
                  /\ ~collecting => raised = e

\* The `required` flag is a string other than "true" and "false".
InvalidRequiredLiteral(r) ==
    r.t = "str" /\ ~IsTrueOrFalseIgnoringCase(r.chars)

\* C17: a property definition built from a schema without a `type` key
\* produces the InvalidSchemaError 'Schema definition of "<name>" must
\* have a "type" attribute.' (stored when collecting, raised otherwise);
\* when collecting the `required` check still runs afterwards, so a schema
\* without `type` and with an invalid `required` literal yields both
\* errors; a schema with a `type` key never produces the missing-type
\* error.
C17_MissingType ==
    PropertyDefCalled =>
        LET schema == propdef.schema
            e == MissingTypeError(propdef.name)
        IN /\ ~schema.has_type =>
                  /\ produced # <<>>
                  /\ produced[1] = e
                  /\ collecting => (e \in Range(exceptions) /\ raised # e)
                  /\ ~collecting => (raised = e /\ produced = <<e>>)
                  /\ (collecting /\ InvalidRequiredLiteral(schema.required)) =>
                         LET f == InvalidRequiredError(
                                      propdef.name, Shown(schema.required))
                         IN /\ produced = <<e, f>>
                            /\ f \in Range(exceptions)
                            /\ raised = NoExc
           /\ schema.has_type =>
                  /\ e \notin Range(produced)
                  /\ raised # e

\* C17 witness: while collecting, a schema without `type` and with the
\* `required` literal "yes" was handed over, and both errors are stored
\* in that order.
C17_Witness ==
    /\ PropertyDefCalled
    /\ collecting
    /\ ~propdef.schema.has_type
    /\ propdef.schema.required = PyStr(<<"y", "e", "s">>)
    /\ exceptions =
           <<[kind |-> "InvalidSchemaError",
              msg |-> "Schema definition of \"prop\" must have a \"type\" attribute."],
             [kind |-> "InvalidSchemaError",
              msg |-> "Schema definition of \"prop\" has \"required\" attribute with invalid value \"yes\". The value must be one of \"true, false\"."]>>

\* C24: PropertyDef.default returns the schema's `default` entry unchanged
\* whenever that key is present (falsy defaults such as 0, false or an
\* empty string included) and None when it is absent; PropertyDef.required
\* is false whenever the schema has no `required` key.
C24_DefaultAndRequiredAbsent ==
    /\ lastOp.op = "default" =>
           /\ propdef.schema.default # Absent =>
                  propdef.got = propdef.schema.default
           /\ propdef.schema.default = Absent =>
                  propdef.got = [t |-> "NoneType",
                                 chars |-> <<"N", "o", "n", "e">>]
    /\ (lastOp.op = "required" /\ propdef.schema.required = Absent) =>
           propdef.got = [t |-> "bool", chars |-> <<"F", "a", "l", "s", "e">>]

\* C24 witness: the default of a schema whose `default` is 0 was read and
\* 0 came back.
C24_Witness ==
    /\ lastOp.op = "default"
    /\ propdef.schema.default = [t |-> "int", chars |-> <<"0">>]
    /\ propdef.got = [t |-> "int", chars |-> <<"0">>]

\* The flag denotes true: the boolean true, or the string "true" in any
\* case.
DenotesTrue(r) ==
    \/ r = [t |-> "bool", chars |-> <<"T", "r", "u", "e">>]
    \/ /\ r.t = "str"
       /\ Len(r.chars) = 4
       /\ IsTrueOrFalseIgnoringCase(r.chars)

\* C26: PropertyDef.required reports true exactly when the schema's
\* `required` flag denotes true (boolean true, or the string "true" in any
\* case); a flag of boolean false or of the accepted string "false" (any
\* case) reports the property as not required.
C26_RequiredDenotesTrue ==
    (/\ lastOp.op = "required"
     /\ propdef.schema.required # Absent
     /\ AcceptedRequired(propdef.schema.required)) =>
        (propdef.got = [t |-> "bool", chars |-> <<"T", "r", "u", "e">>]
             <=> DenotesTrue(propdef.schema.required))

(***************************************************************************)
(* Properties of validation runs that share the collector.                 *)
(***************************************************************************)
\* The exceptions of s with a message no earlier exception of s has.
RECURSIVE FirstOfEachMessage(_)
FirstOfEachMessage(s) ==
    IF s = <<>> THEN <<>>
    ELSE LET front == FirstOfEachMessage(SubSeq(s, 1, Len(s) - 1))
             last == s[Len(s)]
         IN IF \E i \in DOMAIN front : front[i].msg = last.msg
            THEN front ELSE Append(front, last)

\* The report of a list of exceptions.
ReportOf(s) == [i \in DOMAIN s |-> s[i].kind \o ": " \o s[i].msg]

\* Run q has read a report with an exception only run r recorded.
ForeignInReport(q, r) ==
    /\ runs[q].pc = "reported"
    /\ \E i \in DOMAIN runs[r].recorded :
           /\ runs[r].recorded[i] \notin Range(runs[q].recorded)
           /\ (runs[r].recorded[i].kind \o ": " \o runs[r].recorded[i].msg)
                  \in Range(runs[q].report)

\* Run r, still validating, has lost an exception it recorded.
LostByStart(r) ==
    /\ runs[r].pc = "validating"
    /\ \E i \in DOMAIN runs[r].recorded :
           \A k \in DOMAIN exceptions :
               exceptions[k].msg # runs[r].recorded[i].msg

\* C22: the process-wide collector gives no isolation between validation
\* runs: a start() by one run empties the list whatever another run has
\* recorded in it, and a report is the whole shared list, so two
\* interleaved runs reach a state where one has lost recorded exceptions
\* or reads the other's; in a single run that no other run interleaves
\* with, the report holds exactly that run's distinct-message exceptions.
C22_NoIsolation ==
    /\ [](\A r \in Runs :
            runs[r].alone =>
                /\ runs[r].pc # "raised"
                /\ runs[r].pc = "reported" =>
                       runs[r].report
                           = ReportOf(FirstOfEachMessage(runs[r].recorded)))
    /\ [][\A q \in Runs :
            /\ (runs[q].pc = "new" /\ runs'[q].pc = "validating")
                   => exceptions' = <<>>
            /\ (runs[q].pc = "stopped" /\ runs'[q].pc = "reported")
                   => runs'[q].report = ReportOf(exceptions)]_vars

\* C22 witness: two runs interleaved; run 1 has lost an exception it
\* recorded to the start() of run 2, and the report run 2 read holds an
\* exception that only run 1 recorded.
C22_Witness ==
    /\ LostByStart(1)
    /\ ForeignInReport(2, 1)
    /\ ~runs[1].alone
    /\ ~runs[2].alone

(***************************************************************************)
(* Properties of a requirement's `occurrences`.                            *)
(***************************************************************************)
\* The bounds as the document writes them.
Written(v) ==
    CASE v.t = "str" -> v.s
      [] v.n = -1 -> "-1"
      [] v.n = 0 -> "0"
      [] v.n = 1 -> "1"
      [] v.n = 2 -> "2"
      [] v.n = 3 -> "3"
      [] OTHER -> "5"

AllIntegers(items) == \A i \in DOMAIN items : items[i].t = "int"

\* A two-element list of non-negative integers with first <= second and
\* not [0, 0].
AcceptedOccurrences(occ) ==
    /\ occ.list
    /\ Len(occ.items) = 2
    /\ AllIntegers(occ.items)
    /\ occ.items[1].n >= 0 /\ occ.items[2].n >= 0
    /\ occ.items[1].n <= occ.items[2].n
    /\ ~(occ.items[1].n = 0 /\ occ.items[2].n = 0)

InvalidPair(a, b) ==
    [kind |-> "InvalidPropertyValueError",
     msg  |-> "Value of property \"[" \o Written(a) \o ", " \o Written(b)
              \o "]\" is invalid."]
NotAnInteger(v) ==
    [kind |-> "ValueError", msg |-> "\"" \o Written(v) \o "\" is not an integer."]
NotAList(v) ==
    [kind |-> "ValueError", msg |-> "\"" \o Written(v) \o "\" is not a list."]

\* The error is the only one produced: stored while collecting, raised
\* otherwise.
OnlyError(e) ==
    /\ produced = <<e>>
    /\ collecting => (e \in Range(exceptions) /\ raised = NoExc)
    /\ ~collecting => raised = e

OccurrencesChecked == lastOp.op = "_validate_occurrences"

\* C21: for every requirement of a node template, `occurrences` is
\* accepted if and only if it is a two-element list of non-negative
\* integers with first <= second and not [0, 0]; a descending pair, a pair
\* with a negative bound, and [0, 0] are rejected with
\* InvalidPropertyValueError naming the literal pair; a list with a
\* non-integer bound is rejected with ValueError '"<value>" is not an
\* integer.'; a non-list value is rejected with ValueError '"<value>" is
\* not a list.'.
C21_Occurrences ==
    OccurrencesChecked =>
        LET occ == occurrences
            items == occ.items
        IN /\ AcceptedOccurrences(occ) <=> (produced = <<>> /\ raised = NoExc)
           /\ (/\ occ.list /\ Len(items) = 2 /\ AllIntegers(items)
               /\ ~AcceptedOccurrences(occ)) =>
                  OnlyError(InvalidPair(items[1], items[2]))
           /\ (occ.list /\ ~AllIntegers(items)) =>
                  LET i == CHOOSE i \in DOMAIN items :
                               /\ items[i].t # "int"
                               /\ \A j \in 1..(i - 1) : items[j].t = "int"
                      e == NotAnInteger(items[i])
                  IN /\ produced # <<>>
                     /\ produced[1] = e
                     /\ \A k \in DOMAIN produced :
                            produced[k].kind = "ValueError"
                     /\ collecting => (e \in Range(exceptions)
                                       /\ raised = NoExc)
                     /\ ~collecting => (raised = e /\ produced = <<e>>)
           /\ ~occ.list => OnlyError(NotAList(items[1]))

\* C21 witness: while collecting, the pair [0, -1] was checked and the
\* error naming it is stored.
C21_Witness ==
    /\ OccurrencesChecked
    /\ collecting
    /\ occurrences.list
    /\ Len(occurrences.items) = 2
    /\ occurrences.items[1].n = 0
    /\ occurrences.items[2].n = -1
    /\ \E i \in DOMAIN exceptions :
           exceptions[i] = [kind |-> "InvalidPropertyValueError",
                            msg |-> "Value of property \"[0, -1]\" is invalid."]

(***************************************************************************)
(* Properties of the keys of groups and policies.                          *)
(***************************************************************************)
\* The keys a policy may carry.
PolicyKeyNames == {"type", "metadata", "description", "properties", "targets"}

UnknownPolicyField(name, key) ==
    [kind |-> "UnknownFieldError",
     msg  |-> "Policy \"" \o name \o "\" contains unknown field \"" \o key
              \o "\". Refer to the definition to verify valid values."]

MissingType(name) ==
    [kind |-> "MissingRequiredFieldError",
     msg  |-> "Template \"" \o name
              \o "\" is missing required field \"type\"."]

\* The keys of a raw policy mapping that a policy may not carry.
UnknownPolicyKeys(p) ==
    SelectSeq(PolicyKeys(p), LAMBDA k : k \notin PolicyKeyNames)

PolicyCalled == lastOp.op = "Policy"

\* The policy entries _policies builds a Policy for.
BuiltEntries ==
    {i \in DOMAIN doc.policies :
        doc.policies[i].targets # None /\ doc.policies[i].targets # <<>>}

\* C18: for every Policy, each key of its raw mapping outside {type,
\* metadata, description, properties, targets} produces exactly one
\* UnknownFieldError with what 'Policy "<name>"' naming that key, and the
\* keys inside that set produce none; while collecting validation goes on,
\* so every unknown key of every policy is reported (in fail-fast mode the
\* first unknown key of a policy with a type is raised).
C18_UnknownPolicyKeys ==
    /\ PolicyCalled =>
           LET p == entity_tpl
               unknown == UnknownPolicyKeys(p)
           IN /\ \A k \in Range(PolicyKeys(p)) \cap PolicyKeyNames :
                     /\ Count(produced, UnknownPolicyField(p.name, k)) = 0
                     /\ raised # UnknownPolicyField(p.name, k)
              /\ collecting =>
                     \A k \in Range(unknown) :
                         /\ Count(produced, UnknownPolicyField(p.name, k)) = 1
                         /\ Count(exceptions, UnknownPolicyField(p.name, k)) = 1
              /\ (~collecting /\ p.has_type /\ unknown # <<>>) =>
                     /\ raised = UnknownPolicyField(p.name, unknown[1])
                     /\ produced = <<raised>>
    /\ PoliciesBuilt =>
           \A i \in BuiltEntries :
               LET p == doc.policies[i]
               IN /\ \A k \in Range(PolicyKeys(p)) \cap PolicyKeyNames :
                         Count(produced, UnknownPolicyField(p.name, k)) = 0
                  /\ collecting =>
                         \A k \in Range(UnknownPolicyKeys(p)) :
                             /\ Count(produced,
                                      UnknownPolicyField(p.name, k)) = 1
                             /\ Count(exceptions,
                                      UnknownPolicyField(p.name, k)) = 1

\* C18 witness: while collecting, a Policy was built from a mapping with
\* two unknown keys between known ones, and both errors are stored.
C18_Witness ==
    /\ PolicyCalled
    /\ collecting
    /\ "metadata" \in Range(PolicyKeys(entity_tpl))
    /\ \E i, j \in DOMAIN exceptions :
           /\ i < j
           /\ exceptions[i] = UnknownPolicyField("p", "testkey")
           /\ exceptions[j] = UnknownPolicyField("p", "otherkey")

\* The group entry produces no membership error.
GroupMembersClean(g) ==
    \/ g.members = None
    \/ /\ ~EmptyOrRepeated(g.members)
       /\ Range(g.members) \subseteq BuiltNodeNames

\* C19: a group or a policy whose raw mapping has no `type` field produces
\* the MissingRequiredFieldError 'Template "<name>" is missing required
\* field "type".' (stored while collecting; raised in fail-fast mode when
\* the constructor gets to that entity), and one with a `type` field does
\* not.
C19_MissingTypeField ==
    /\ PolicyCalled =>
           LET e == MissingType(entity_tpl.name)
           IN IF entity_tpl.has_type
              THEN e \notin Range(produced) /\ raised # e
              ELSE /\ produced # <<>> /\ produced[1] = e
                   /\ collecting => e \in Range(exceptions)
                   /\ ~collecting => raised = e
    /\ \A i \in DOMAIN doc.groups :
           LET g == doc.groups[i]
               e == MissingType(g.name)
           IN IF g.has_type
              THEN e \notin Range(produced) /\ raised # e
              ELSE /\ (collecting /\ GroupsBuilt) =>
                          (e \in Range(exceptions) /\ e \in Range(produced))
                   /\ (/\ ~collecting
                       /\ lastOp.op = "_groups"
                       /\ GroupMembersClean(g)
                       /\ \A j \in 1..(i - 1) :
                              /\ GroupMembersClean(doc.groups[j])
                              /\ doc.groups[j].has_type) =>
                          (raised = e /\ pc = "raised")
    /\ \A i \in DOMAIN doc.policies :
           LET p == doc.policies[i]
               e == MissingType(p.name)
           IN IF p.has_type
              THEN e \notin Range(produced) /\ raised # e
              ELSE (collecting /\ PoliciesBuilt /\ i \in BuiltEntries) =>
                       (e \in Range(exceptions) /\ e \in Range(produced))

\* C19 witness: a collecting construction completed on a document with a
\* group and a policy that have no `type`, and both errors are stored.
C19_Witness ==
    /\ collecting
    /\ pc = "done"
    /\ \E i, j \in DOMAIN exceptions :
           /\ i < j
           /\ exceptions[i] =
                  [kind |-> "MissingRequiredFieldError",
                   msg |-> "Template \"b\" is missing required field \"type\"."]
           /\ exceptions[j] =
                  [kind |-> "MissingRequiredFieldError",
                   msg |-> "Template \"p\" is missing required field \"type\"."]

(***************************************************************************)
(* Properties of the built object and of its groups and policies.          *)
(***************************************************************************)
\* The read accessors of a constructed TopologyTemplate.
ReadAccessors == {"inputs", "outputs", "nodetemplates",
                  "relationship_templates", "groups", "policies", "graph"}

\* C27: after TopologyTemplate construction completes without raising, the
\* object exposes all of the read accessors inputs, outputs, nodetemplates,
\* relationship_templates, groups, policies and graph, for every document
\* handed to it, including an empty or absent one (for which no stage runs
\* and nothing is recorded in the collector).
C27_AccessorsExposed ==
    pc = "done" =>
        /\ ReadAccessors \subseteq tt.attrs
        /\ ~NonEmptyDoc => (stagesRun = <<>> /\ produced = <<>>)

\* The entry's targets list is present and not empty.
HasTargets(p) == p.targets # None /\ p.targets # <<>>

\* The errors that name a policy entry.
ErrorsNaming(p) ==
    {MissingType(p.name)}
    \cup {UnknownPolicyField(p.name, k) :
              k \in {"type", "targets", "testkey"}}

\* C28: the built policies list holds, in document order, exactly one
\* Policy per policy entry whose targets list is non-empty; an entry whose
\* targets are absent or empty is skipped entirely: no Policy is built for
\* it and none of its fields (missing type, unknown keys, metadata) is
\* validated or reported.
C28_PoliciesWithTargets ==
    /\ PoliciesBuilt =>
           LET kept == SelectSeq(doc.policies, HasTargets)
           IN [i \in DOMAIN tt.policies |-> tt.policies[i].name]
                  = [i \in DOMAIN kept |-> kept[i].name]
    /\ \A i \in DOMAIN doc.policies :
           ~HasTargets(doc.policies[i]) =>
               /\ \A p \in Range(tt.policies) : p.name # doc.policies[i].name
               /\ ErrorsNaming(doc.policies[i])
                      \cap (Range(produced) \cup Range(exceptions)
                            \cup {raised}) = {}

\* C28 witness: a collecting construction completed on a document whose
\* first policy has an empty targets list, no type and an unknown key, and
\* whose second policy has targets: only the second is built and nothing
\* is reported.
C28_Witness ==
    /\ collecting
    /\ pc = "done"
    /\ Len(doc.policies) = 2
    /\ doc.policies[1].targets = <<>>
    /\ ~doc.policies[1].has_type
    /\ doc.policies[1].extra = <<"testkey">>
    /\ Len(tt.policies) = 1
    /\ tt.policies[1].name = "q"
    /\ exceptions = <<>>

\* No target of the list names a built group.
NoGroupTarget(t) == \A k \in DOMAIN t : t[k] \notin BuiltGroupNames

\* The errors the step has handed to the collector.
NewlyProduced ==
    {produced'[k] : k \in (Len(produced) + 1)..Len(produced')}

\* C29: when no target of a policy names a built group, every target name
\* that is also absent from the built node templates produces an
\* InvalidGroupTargetException 'Target member "<name>" is not found in
\* node_templates' (in fail-fast mode the first such name is raised), and
\* in collecting mode the Policy is still built with targets_type
\* "node_templates" and only the matched nodes; when at least one target
\* names a group, target names that match nothing produce no error at
\* all.
C29_PolicyTargetsNotFound ==
    /\ [][pc = "_policies" =>
            \A i \in DOMAIN doc.policies :
                LET t == doc.policies[i].targets
                    absent == SelectSeq(t, LAMBDA x : x \notin BuiltNodeNames)
                    matched == SelectSeq(t, LAMBDA x : x \in BuiltNodeNames)
                IN HasTargets(doc.policies[i]) =>
                     /\ (NoGroupTarget(t) /\ collecting) =>
                            /\ \A k \in DOMAIN absent :
                                   /\ NotFoundError(absent[k]) \in NewlyProduced
                                   /\ NotFoundError(absent[k])
                                          \in Range(exceptions')
                            /\ \E p \in Range(tt'.policies) :
                                   /\ p.name = doc.policies[i].name
                                   /\ p.targets_type = "node_templates"
                                   /\ p.targets_list =
                                          [k \in DOMAIN matched |->
                                              [class |-> "NodeTemplate",
                                               name |-> matched[k]]]
                     /\ (NoGroupTarget(t) /\ ~collecting /\ absent # <<>>
                           /\ i = 1) =>
                            /\ raised' = NotFoundError(absent[1])
                            /\ pc' = "raised"
                     /\ ~NoGroupTarget(t) =>
                            \A n \in Range(t) :
                                /\ NotFoundError(n) \notin NewlyProduced
                                /\ raised' # NotFoundError(n)]_vars

\* C29 witness: a collecting construction completed on a policy whose
\* targets name a built node and an unknown name and no group; the policy
\* holds the built node only and the error for the unknown name is stored.
C29_Witness ==
    /\ collecting
    /\ pc = "done"
    /\ BuiltGroupNames = {}
    /\ BuiltNodeNames = {"a"}
    /\ Len(doc.policies) = 1
    /\ doc.policies[1].targets = <<"a", "b">>
    /\ Len(tt.policies) = 1
    /\ tt.policies[1].targets_type = "node_templates"
    /\ tt.policies[1].targets_list = <<[class |-> "NodeTemplate", name |-> "a"]>>
    /\ exceptions =
           <<[kind |-> "InvalidGroupTargetException",
              msg |-> "\"Target member \"b\" is not found in node_templates\""]>>

\* C30: in collecting mode the built groups list holds exactly one Group
\* per entry of the document's groups mapping, in document order, whether
\* or not that entry's member list was rejected or named unknown nodes: a
\* membership error never removes the group from the model.
C30_EveryGroupBuilt ==
    (collecting /\ GroupsBuilt) =>
        /\ Len(tt.groups) = Len(doc.groups)
        /\ \A i \in DOMAIN doc.groups :
               /\ tt.groups[i].class = "Group"
               /\ tt.groups[i].name = doc.groups[i].name

\* C30 witness: a collecting construction completed on a document whose
\* first group has an empty members list and whose second group names an
\* unknown node; both errors are stored and both groups are built.
C30_Witness ==
    /\ collecting
    /\ pc = "done"
    /\ Len(doc.groups) = 2
    /\ doc.groups[1].members = <<>>
    /\ doc.groups[2].members = <<"b">>
    /\ BuiltNodeNames = {"a"}
    /\ Len(exceptions) = 2
    /\ Len(tt.groups) = 2
    /\ tt.groups[1].name = "a"
    /\ tt.groups[2].name = "b"

(***************************************************************************)
(* Properties of the collector's report.                                   *)
(***************************************************************************)
\* The class names and the messages assertExceptionMessage is asked about.
AskedKinds == {"ValidationError", "InvalidSchemaError", "UnknownFieldError",
               "InvalidGroupTargetException"}
AskedMessages ==
    {"m1", "m2", "m3"} \cup {exceptions[i].msg : i \in DOMAIN exceptions}

\* The entry of the report for a stored exception.
ReportLine(e) ==
    CASE e = ValidationError("m1") -> "ValidationError: m1"
      [] e = ValidationError("m2") -> "ValidationError: m2"
      [] e = InvalidSchemaError("m1") -> "InvalidSchemaError: m1"
      [] e.kind = "UnknownFieldError" -> "UnknownFieldError: " \o e.msg
      [] OTHER -> "InvalidGroupTargetException: " \o e.msg

\* C20: getExceptionsReport(full=False) returns one entry per stored
\* exception, in recording order, each equal to '<exception class name>:
\* <message>'; the report is as long as the stored list, and
\* assertExceptionMessage(kind, msg) succeeds exactly when an exception of
\* that kind name with that message is stored.
C20_Report ==
    /\ Len(getExceptionsReport) = Len(exceptions)
    /\ \A i \in DOMAIN exceptions :
           getExceptionsReport[i] = ReportLine(exceptions[i])
    /\ \A kind \in AskedKinds, message \in AskedMessages :
           assertExceptionMessage(kind, message) <=>
               \E i \in DOMAIN exceptions :
                   /\ exceptions[i].kind = kind
                   /\ exceptions[i].msg = message

\* C20 witness: two exceptions are stored, the report names the class of
\* the one with message "m1", and the assertion about the other class with
\* that message fails.
C20_Witness ==
    /\ Len(exceptions) = 2
    /\ getExceptionsReport[1] = "InvalidSchemaError: m1"
    /\ getExceptionsReport[2] = "ValidationError: m2"
    /\ assertExceptionMessage("InvalidSchemaError", "m1")
    /\ ~assertExceptionMessage("ValidationError", "m1")

====
